---- MODULE Spec2Model ----
(***************************************************************************)
(* A model of glp, a man-in-the-middle HTTP/HTTPS forward proxy.           *)
(*                                                                         *)
(* The module holds several state machines, one per subsystem, each with   *)
(* its own specification over the shared variable list:                    *)
(*   SpecCache  the leaf-certificate LRU (ca/cache.go) driven by           *)
(*              concurrent ca.GetCertificate calls (ca/ca.go)              *)
(***************************************************************************)
EXTENDS Integers, Sequences, FiniteSets, TLC

VARIABLES
    cache,      \* ca.tlsCerCache: the *Cache built by NewCache
    gc,         \* one record per goroutine calling ca.GetCertificate
    cachedConn, \* a proxy.CachedConn: used, buffer (data and capacity)
    netConn,    \* the net.Conn under it: the byte stream, how much of it
                \* has been delivered, and whether it has failed
    replayed,   \* the bytes CachedConn.Read has returned since Rewind
    sniff,      \* one run of serve's CONNECT dispatch: the Peek(8) result
                \* and the route taken
    srv,        \* the proxy.Server: shutdown flag, listener, listenerWg,
                \* trackedConn, and the listeners bound so far
    las,        \* the goroutines running Server.ListenAndServe
    sd,         \* the goroutine running Server.Shutdown and its context
    hs,         \* one record per client connection: its serve goroutine
    ca,         \* process startup: the CA file, caCer and caKey, and how
                \* far main has got through ca.Setup and proxy.NewServer
    call        \* the last call made on the object under study, with its
                \* arguments and what it returned

cacheVars == <<cache, gc>>
connVars == <<cachedConn, netConn, replayed>>
sniffVars == <<sniff>>
srvVars == <<srv, las, sd, hs>>
caVars == <<ca>>
callVars == <<call>>

(***************************************************************************)
(* Bounds of the model.                                                    *)
(***************************************************************************)
\* NewCache(cap) is explored for every cap in 1..MaxCap
MaxCap == 2
\* number of goroutines calling GetCertificate concurrently
NumProcs == 2
\* the longest byte stream a connection delivers
MaxStream == 4
\* number of client connections the listener accepts
NumConns == 2
\* the most bytes a client sends after the 8 that are peeked
MaxTail == 2
\* number of concurrent ListenAndServe calls on one Server
NumCallers == 2
\* the most PEM blocks a CA file holds
MaxBlocks == 3
\* the most labels a server name has
MaxLabels == 4
\* the recording buffer's capacity is explored for 1..MaxBufCap
MaxBufCap == 3
\* the largest n of Prefetch(n) and the longest b of Read(b)
MaxRead == 3

Nil == -1

SetMin(S) == CHOOSE x \in S : \A y \in S : x <= y

(***************************************************************************)
(* Domain names are sequences of labels: "a.example.com" is                *)
(* <<"a","example","com">>, so strings.Count(domain, ".") is Len - 1 and   *)
(* domain[strings.IndexByte(domain,'.')+1:] is Tail.                       *)
(***************************************************************************)
Numeric == {"127", "0", "1", "10"}

\* net.ParseIP(serverName) != nil, for dotted-quad literals
ParseIP(name) == Len(name) = 4 /\ \A i \in 1..4 : name[i] \in Numeric

\* The rules of the public-suffix list the model knows, longest first, each
\* with the section it comes from (icann = TRUE for the ICANN section).
SuffixRules ==
    << [rule |-> <<"aisai", "aichi", "jp">>, icann |-> TRUE],
       [rule |-> <<"appspot", "com">>,       icann |-> FALSE],
       [rule |-> <<"aichi", "jp">>,          icann |-> TRUE],
       [rule |-> <<"com">>,                  icann |-> TRUE],
       [rule |-> <<"jp">>,                   icann |-> TRUE] >>

IsSuffix(s, d) ==
    /\ Len(s) <= Len(d)
    /\ \A i \in 1..Len(s) : s[i] = d[Len(d) - Len(s) + i]

\* publicsuffix.PublicSuffix(domain): the longest matching rule; when no rule
\* matches, the default rule "*" gives the last label, outside the ICANN
\* section.
PublicSuffix(domain) ==
    LET hits == {i \in 1..Len(SuffixRules) : IsSuffix(SuffixRules[i].rule, domain)}
    IN  IF hits = {}
        THEN [suffix |-> <<domain[Len(domain)]>>, icann |-> FALSE]
        ELSE LET i == SetMin(hits)
             IN  [suffix |-> SuffixRules[i].rule, icann |-> SuffixRules[i].icann]

\* ca.asteriskFor: the SAN list of a non-IP server name; its first element
\* is the cache key.
asteriskFor(domain) ==
    LET dotSum    == Len(domain) - 1
        ps        == PublicSuffix(domain)
        dotSuffix == Len(ps.suffix) - 1
    IN  IF dotSum = 0 THEN <<domain>>
        ELSE IF ps.icann
        THEN IF dotSum = dotSuffix THEN <<domain>>
             ELSE IF dotSum - dotSuffix = 1 THEN << <<"*">> \o domain, domain >>
             ELSE IF dotSum - dotSuffix = 2
                  THEN << <<"*">> \o Tail(domain), Tail(domain) >>
             ELSE << <<"*">> \o Tail(domain) >>
        ELSE IF dotSum = 1 \/ dotSum = dotSuffix
             THEN << <<"*">> \o domain, domain >>
             ELSE IF dotSum - dotSuffix = 1
                  THEN << <<"*">> \o Tail(domain), Tail(domain) >>
             ELSE << <<"*">> \o Tail(domain) >>

\* The server names the GetCertificate callers ask for: two of them share
\* a cache key.
ServerNameSeq ==
    << <<"localhost">>,
       <<"example", "com">>,
       <<"a", "example", "com">>,
       <<"127", "0", "0", "1">> >>
ServerNames == {ServerNameSeq[i] : i \in 1..Len(ServerNameSeq)}

\* GetCertificate lines 186-194: the SANs and the cache key of a server name
SanOf(serverName) ==
    IF ParseIP(serverName)
    THEN [dns |-> <<>>, ips |-> <<serverName>>, key |-> serverName]
    ELSE LET san(dns) == [dns |-> dns, ips |-> <<>>, key |-> dns[1]]
         IN  san(asteriskFor(serverName))

(***************************************************************************)
(* ca.Cache: a circular doubly linked list threaded through a root         *)
(* sentinel (node 0) and an index from key to node.  A node the list no    *)
(* longer links is unreferenced and is handed out again by the allocator.  *)
(***************************************************************************)
Root == 0
Nodes == 1..(Len(ServerNameSeq) + 1)
\* the address the allocator prefers for the elem of a key
SlotOf(key) ==
    SetMin({i \in 1..Len(ServerNameSeq) : SanOf(ServerNameSeq[i]).key = key})
NoCert == [serial |-> Nil, dns |-> <<>>, ips |-> <<>>]
NoName == <<>>

\* NewCache(cap)
NewCache(cap) ==
    [ cap  |-> cap,
      next |-> [n \in {Root} \cup Nodes |-> IF n = Root THEN Root ELSE Nil],
      prev |-> [n \in {Root} \cup Nodes |-> IF n = Root THEN Root ELSE Nil],
      name |-> [n \in Nodes |-> NoName],
      cert |-> [n \in Nodes |-> NoCert],
      idx  |-> <<>> ]

Has(c, key) == key \in DOMAIN c.idx
IdxLen(c) == Cardinality(DOMAIN c.idx)

\* &elem{name: key, ...}: a node that nothing links.  Any free address is a
\* possible result of the allocation; the model takes the key's own slot
\* when it is free and the lowest free node otherwise.
NewElem(c, key) ==
    LET pick(free, slot) ==
            IF slot \in free THEN slot
            ELSE IF free = {} THEN Nil ELSE SetMin(free)
    IN  pick({n \in Nodes : c.next[n] = Nil /\ c.prev[n] = Nil
                               /\ \A k \in DOMAIN c.idx : c.idx[k] # n},
             SlotOf(key))

\* Cache.back
back(c) == IF IdxLen(c) = 0 THEN Nil ELSE c.prev[Root]

\* a hit that leaves the list as it is
moveToFrontNever(c, e) == c

\* Cache.moveToFront
moveToFront(c, e) ==
    IF c.next[Root] = e THEN c
    ELSE LET n1 == [c.next EXCEPT ![c.prev[e]] = c.next[e]]
             p1 == [c.prev EXCEPT ![c.next[e]] = c.prev[e]]
             p2 == [p1 EXCEPT ![e] = Root]
             n2 == [n1 EXCEPT ![e] = n1[Root]]
             n3 == [n2 EXCEPT ![p2[e]] = e]
             p3 == [p2 EXCEPT ![n3[e]] = e]
         IN  [c EXCEPT !.next = n3, !.prev = p3]

\* Cache.pushFront of a new elem e with the given name and cert
pushFront(c, e, key, value) ==
    LET p1 == [c.prev EXCEPT ![e] = Root]
        n1 == [c.next EXCEPT ![e] = c.next[Root]]
        n2 == [n1 EXCEPT ![p1[e]] = e]
        p2 == [p1 EXCEPT ![n2[e]] = e]
    IN  [c EXCEPT !.next = n2, !.prev = p2,
                  !.name = [@ EXCEPT ![e] = key],
                  !.cert = [@ EXCEPT ![e] = value],
                  !.idx = [k \in DOMAIN c.idx \cup {key} |->
                              IF k = key THEN e ELSE c.idx[k]]]

\* an unlink that leaves the index entry behind
removeKeepIndex(c, e) ==
    LET n1 == [c.next EXCEPT ![c.prev[e]] = c.next[e]]
        p1 == [c.prev EXCEPT ![c.next[e]] = c.prev[e]]
    IN  [c EXCEPT !.next = [n1 EXCEPT ![e] = Nil],
                  !.prev = [p1 EXCEPT ![e] = Nil]]

\* Cache.remove
remove(c, e) ==
    LET n1 == [c.next EXCEPT ![c.prev[e]] = c.next[e]]
        p1 == [c.prev EXCEPT ![c.next[e]] = c.prev[e]]
        nm == c.name[e]
    IN  [c EXCEPT !.next = [n1 EXCEPT ![e] = Nil],
                  !.prev = [p1 EXCEPT ![e] = Nil],
                  !.cert = [@ EXCEPT ![e] = NoCert],
                  !.name = [@ EXCEPT ![e] = NoName],
                  !.idx = [k \in DOMAIN c.idx \ {nm} |-> c.idx[k]]]

\* Cache.Load: the cache after the call, the value and ok
Load(c, key) ==
    IF Has(c, key)
    THEN [cache |-> moveToFront(c, c.idx[key]), value |-> c.cert[c.idx[key]], ok |-> TRUE]
    ELSE [cache |-> c, value |-> NoCert, ok |-> FALSE]

\* LoadOrStore with the eviction left out
LoadOrStoreNoEvict(c, key, value) ==
    IF Has(c, key)
    THEN [cache |-> moveToFront(c, c.idx[key]), actual |-> c.cert[c.idx[key]], loaded |-> TRUE]
    ELSE [cache |-> pushFront(c, NewElem(c, key), key, value), actual |-> value, loaded |-> FALSE]

\* Cache.LoadOrStore: the cache after the call, actual and loaded
LoadOrStore(c, key, value) ==
    IF Has(c, key)
    THEN [cache |-> moveToFront(c, c.idx[key]), actual |-> c.cert[c.idx[key]], loaded |-> TRUE]
    ELSE LET result(e, c2) == [cache |-> c2, actual |-> c2.cert[e], loaded |-> FALSE]
             drop(c1, ee)  == IF ee # Nil THEN remove(c1, ee) ELSE c1
             trim(c1)      == IF IdxLen(c1) > c1.cap THEN drop(c1, back(c1)) ELSE c1
             store(e)      == result(e, trim(pushFront(c, e, key, value)))
         IN  store(NewElem(c, key))

\* Cache.Status
Status(c) == [length |-> IdxLen(c), capacity |-> c.cap]

(***************************************************************************)
(* ca.GetCertificate, one call at a time per goroutine.  The cache calls   *)
(* are atomic (Cache.mu); minting happens between them, outside the lock.  *)
(***************************************************************************)
Procs == 1..NumProcs
Conns == 1..NumConns
\* the goroutines that may call GetCertificate: the callers of the cache
\* specification and the connection handlers of the server
GcIds == Procs \cup Conns

\* raced and victim record history for the properties: the goroutines whose
\* miss on the same key overlapped this call, and the keys this call's
\* LoadOrStore dropped from the index.
GcIdle == [pc |-> "idle", key |-> NoName, dns |-> <<>>, ips |-> <<>>,
           cer |-> NoCert, ret |-> NoCert, err |-> FALSE, minted |-> FALSE,
           raced |-> {}, victim |-> {}]

\* the certificates some goroutine or the cache still holds
LiveCerts ==
    {cache.cert[n] : n \in Nodes}
        \cup {gc[p].cer : p \in GcIds}
        \cup {gc[p].ret : p \in GcIds}

\* generateSerialNumber draws 128 random bits: the leaf differs from every
\* certificate still held.  The model takes the lowest serial that no held
\* certificate with the same SANs carries.
FreshSerial(dns, ips) ==
    SetMin({n \in 0..(2 * Cardinality(GcIds) + 1) :
               [serial |-> n, dns |-> dns, ips |-> ips] \notin LiveCerts})

\* the goroutines that are between their cache miss and their return for key
InFlight(key) == {q \in GcIds : gc[q].pc \in {"mint", "store"} /\ gc[q].key = key}

\* GetCertificate lines 186-203: derive the key, then tlsCerCache.Load
GetCertificateLoad(p, serverName) ==
    /\ gc[p].pc = "idle"
    /\ \E san \in {SanOf(serverName)} : \E r \in {Load(cache, san.key)} :
           /\ cache' = r.cache
           /\ gc' = IF r.ok
                    THEN [gc EXCEPT ![p] = [GcIdle EXCEPT !.pc = "ret", !.key = san.key,
                                               !.dns = san.dns, !.ips = san.ips,
                                               !.ret = r.value]]
                    ELSE [q \in GcIds |->
                            IF q = p
                            THEN [GcIdle EXCEPT !.pc = "mint", !.key = san.key,
                                     !.dns = san.dns, !.ips = san.ips,
                                     !.raced = InFlight(san.key)]
                            ELSE IF q \in InFlight(san.key)
                                 THEN [gc[q] EXCEPT !.raced = @ \cup {p}]
                                 ELSE gc[q]]

\* GetCertificate line 204: generateLeaf(dns, ips) succeeds
GenerateLeafOk(p) ==
    /\ gc[p].pc = "mint"
    /\ gc' = [gc EXCEPT ![p].pc = "store",
                        ![p].cer = [serial |-> FreshSerial(gc[p].dns, gc[p].ips), dns |-> gc[p].dns,
                                    ips |-> gc[p].ips]]
    /\ UNCHANGED cache

\* a failure that leaves an empty entry under the key
GenerateLeafErrCached(p) ==
    /\ gc[p].pc = "mint"
    /\ gc' = [gc EXCEPT ![p].pc = "ret", ![p].err = TRUE]
    /\ cache' = LoadOrStore(cache, gc[p].key, NoCert).cache

\* GetCertificate lines 217-219: generateLeaf fails, the error is returned
GenerateLeafErr(p) ==
    /\ gc[p].pc = "mint"
    /\ gc' = [gc EXCEPT ![p].pc = "ret", ![p].err = TRUE]
    /\ UNCHANGED cache

\* the certificate GetCertificate hands back after LoadOrStore
StoreResult(own, r) == own

\* GetCertificate lines 210-216: LoadOrStore, then return tlsCer
GetCertificateStore(p) ==
    /\ gc[p].pc = "store"
    /\ \E r \in {LoadOrStore(cache, gc[p].key, gc[p].cer)} :
           /\ cache' = r.cache
           /\ gc' = [gc EXCEPT ![p].pc = "ret", ![p].minted = TRUE,
                               ![p].ret = StoreResult(gc[p].cer, r),
                               ![p].victim = DOMAIN cache.idx \ DOMAIN r.cache.idx]

\* the caller takes the result; the goroutine is free for its next call
GetCertificateReturn(p) ==
    /\ gc[p].pc = "ret"
    /\ gc' = [q \in GcIds |->
                IF q = p THEN GcIdle
                ELSE [gc[q] EXCEPT !.raced = @ \ {p}]]
    /\ UNCHANGED cache

InitCache ==
    /\ \E cap \in 1..MaxCap : cache = NewCache(cap)
    /\ gc = [p \in GcIds |-> GcIdle]

\* the calls of a goroutine that asks for certificates and does nothing else
CallLoad(p) ==
    /\ \E serverName \in ServerNames : GetCertificateLoad(p, serverName)
    /\ UNCHANGED <<connVars, sniffVars, srvVars, caVars, callVars>>
CallMintOk(p) == GenerateLeafOk(p) /\ UNCHANGED <<connVars, sniffVars, srvVars, caVars, callVars>>
CallMintErr(p) == GenerateLeafErr(p) /\ UNCHANGED <<connVars, sniffVars, srvVars, caVars, callVars>>
CallStore(p) == GetCertificateStore(p) /\ UNCHANGED <<connVars, sniffVars, srvVars, caVars, callVars>>
CallReturn(p) == GetCertificateReturn(p) /\ UNCHANGED <<connVars, sniffVars, srvVars, caVars, callVars>>

NextCache ==
    \E p \in Procs :
        \/ CallLoad(p)
        \/ CallMintOk(p)
        \/ CallMintErr(p)
        \/ CallStore(p)
        \/ CallReturn(p)

vars == <<cache, gc, cachedConn, netConn, replayed, sniff, srv, las, sd, hs, ca, call>>

(***************************************************************************)
(* proxy.CachedConn over a net.Conn.  The connection delivers the bytes of *)
(* a stream in order, in chunks of any size, and then io.EOF; it may fail  *)
(* at any point, after which every Read fails.                             *)
(***************************************************************************)
Bytes == {0, 1}
Min(a, b) == IF a <= b THEN a ELSE b
Max(a, b) == IF a >= b THEN a ELSE b
Drop(q, n) == SubSeq(q, n + 1, Len(q))
Take(q, n) == SubSeq(q, 1, n)

\* what the connection still has to deliver
Pending(nc) == Drop(nc.stream, nc.pos)
\* what it has delivered so far
Delivered(nc) == Take(nc.stream, nc.pos)

\* Read(b) of a network connection with len(b) = max: the possible results,
\* each with the connection after the call
NetRead(nc, max) ==
    IF nc.dead THEN {[n |-> 0, err |-> TRUE, conn |-> nc]}
    ELSE IF max = 0 THEN {[n |-> 0, err |-> FALSE, conn |-> nc]}
    ELSE LET avail == Min(max, Len(Pending(nc)))
         IN  {[n |-> k, err |-> FALSE, conn |-> [nc EXCEPT !.pos = @ + k]]
                 : k \in 1..avail}
             \cup
             {[n |-> k, err |-> TRUE,
               conn |-> [nc EXCEPT !.pos = @ + k, !.dead = TRUE]]
                 : k \in IF avail = 0 THEN {0} ELSE {0, avail}}

\* A BufioConn is the connection with the number br of bytes its
\* bufio.Reader holds: stream[pos+1 .. pos+br] were read from the socket
\* and not yet handed out; dead says the socket has failed or ended.
NewBufioConn(st, have) == [stream |-> st, pos |-> 0, dead |-> FALSE, br |-> have]

\* what the socket under a BufioConn has not delivered yet
Unread(nc) == Drop(nc.stream, nc.pos + nc.br)

\* BufioConn.Read(b) = bufio.Reader.Read(b) with len(b) = max: buffered bytes
\* first; on an empty buffer one Read of the socket, into b or into the
\* reader's buffer, whose error comes back with the data or on the next call
BufioRead(nc, max) ==
    IF max = 0 THEN {[n |-> 0, err |-> FALSE, conn |-> nc]}
    ELSE IF nc.br > 0
    THEN LET n == Min(max, nc.br)
         IN  {[n |-> n, err |-> FALSE, conn |-> [nc EXCEPT !.pos = @ + n, !.br = @ - n]]}
    ELSE IF nc.dead THEN {[n |-> 0, err |-> TRUE, conn |-> nc]}
    ELSE LET avail == Len(Unread(nc))
         IN  {[n |-> Min(k, max), err |-> FALSE,
               conn |-> [nc EXCEPT !.pos = @ + Min(k, max), !.br = k - Min(k, max),
                                   !.dead = d]]
                 : k \in 1..avail, d \in BOOLEAN}
             \cup
             {[n |-> k, err |-> TRUE, conn |-> [nc EXCEPT !.pos = @ + k, !.dead = TRUE]]
                 : k \in 0..Min(max, avail)}

\* c.Conn.Read(b): the embedded net.Conn is a *BufioConn or a plain
\* connection
ConnRead(nc, max) ==
    IF "br" \in DOMAIN nc THEN BufioRead(nc, max) ELSE NetRead(nc, max)

\* the fill loop of bufio.Reader.Peek(n): the possible buffers when it ends
RECURSIVE PeekFill(_, _)
PeekFill(nc, n) ==
    IF nc.br >= n THEN {nc}
    ELSE IF nc.dead THEN {nc}
    ELSE LET avail == Len(Unread(nc))
         IN  UNION {PeekFill([nc EXCEPT !.br = @ + k], n) : k \in 1..avail}
             \cup {[nc EXCEPT !.br = @ + k, !.dead = TRUE] : k \in 0..avail}

\* bufio.Reader.Peek(n): the next n bytes without consuming them, or the
\* bytes there are and an error
Peek(nc, n) ==
    { [data |-> SubSeq(c.stream, c.pos + 1, c.pos + Min(n, c.br)),
       err  |-> c.br < n,
       conn |-> c] : c \in PeekFill(nc, n) }

\* append(*c.buffer, b[:n]...): the slice grows when its capacity is short
appendBytes(buf, data) ==
    LET need == Len(buf.data) + Len(data)
    IN  [data |-> buf.data \o data,
         cap  |-> IF need > buf.cap THEN Max(2 * buf.cap, need) ELSE buf.cap]

\* NewCachedConn(conn) with a buffer of the given capacity from the pool
NewCachedConn(cap) == [used |-> -1, buffer |-> [data |-> <<>>, cap |-> cap]]

\* CachedConn.Rewind reports a failure: it has no error result (it returns
\* len(*c.buffer)) and no path that panics, whatever c.used is
RewindErr(c) == FALSE

\* a Rewind that leaves the connection recording
RewindSkipped(c) == c

\* CachedConn.Rewind
Rewind(c) == IF c.used = -1 THEN [c EXCEPT !.used = 0] ELSE c

\* the read loop of Prefetch: the possible final (sum, err) with the
\* connection after the loop
RECURSIVE PrefetchLoop(_, _, _)
PrefetchLoop(nc, n, sum) ==
    UNION { IF r.err \/ sum + r.n >= n
            THEN {[sum |-> sum + r.n, err |-> r.err, conn |-> r.conn]}
            ELSE PrefetchLoop(r.conn, n, sum + r.n)
            : r \in ConnRead(nc, n - sum) }

\* a Prefetch that reads without looking at the buffer's capacity
PrefetchUnchecked(c, nc, n) ==
    IF c.used >= 0
    THEN {[buf |-> <<>>, err |-> TRUE, cc |-> c, conn |-> nc]}
    ELSE { LET got == SubSeq(nc.stream, nc.pos + 1, nc.pos + r.sum)
           IN  [buf  |-> got,
                err  |-> IF r.sum >= n THEN FALSE ELSE r.err,
                cc   |-> [c EXCEPT !.buffer.data = @ \o got],
                conn |-> r.conn]
           : r \in IF n > 0 THEN PrefetchLoop(nc, n, 0)
                   ELSE {[sum |-> 0, err |-> FALSE, conn |-> nc]} }

\* CachedConn.Prefetch(n): the possible results, each with the CachedConn
\* and the connection after the call
Prefetch(c, nc, n) ==
    IF c.used >= 0
    THEN {[buf |-> <<>>, err |-> TRUE, cc |-> c, conn |-> nc]}
    ELSE IF Len(c.buffer.data) + n > c.buffer.cap
    THEN {[buf |-> <<>>, err |-> TRUE, cc |-> c, conn |-> nc]}
    ELSE LET runs == IF n > 0 THEN PrefetchLoop(nc, n, 0)
                     ELSE {[sum |-> 0, err |-> FALSE, conn |-> nc]}
         IN  { LET got == SubSeq(nc.stream, nc.pos + 1, nc.pos + r.sum)
               IN  [buf  |-> got,
                    err  |-> IF r.sum >= n THEN FALSE ELSE r.err,
                    cc   |-> [c EXCEPT !.buffer.data = @ \o got],
                    conn |-> r.conn]
               : r \in runs }

\* CachedConn.Read with the cursor left where it was after a replayed read
ReadNoAdvance(c, nc, blen) ==
    IF c.used = -1
    THEN { [data |-> SubSeq(nc.stream, nc.pos + 1, nc.pos + r.n), err |-> r.err,
            cc   |-> [c EXCEPT !.buffer =
                         appendBytes(@, SubSeq(nc.stream, nc.pos + 1, nc.pos + r.n))],
            conn |-> r.conn] : r \in ConnRead(nc, blen) }
    ELSE IF Len(c.buffer.data) > c.used
    THEN LET n == Min(blen, Len(c.buffer.data) - c.used)
         IN  {[data |-> SubSeq(c.buffer.data, c.used + 1, c.used + n),
               err |-> FALSE, cc |-> c, conn |-> nc]}
    ELSE { [data |-> SubSeq(nc.stream, nc.pos + 1, nc.pos + r.n), err |-> r.err,
            cc |-> c, conn |-> r.conn] : r \in ConnRead(nc, blen) }

\* CachedConn.Read(b) with len(b) = blen: the possible results, each with
\* the CachedConn and the connection after the call
Read(c, nc, blen) ==
    IF c.used = -1
    THEN { [data |-> SubSeq(nc.stream, nc.pos + 1, nc.pos + r.n), err |-> r.err,
            cc   |-> [c EXCEPT !.buffer =
                         appendBytes(@, SubSeq(nc.stream, nc.pos + 1, nc.pos + r.n))],
            conn |-> r.conn] : r \in ConnRead(nc, blen) }
    ELSE IF Len(c.buffer.data) > c.used
    THEN LET n == Min(blen, Len(c.buffer.data) - c.used)
         IN  {[data |-> SubSeq(c.buffer.data, c.used + 1, c.used + n),
               err |-> FALSE, cc |-> [c EXCEPT !.used = @ + n], conn |-> nc]}
    ELSE { [data |-> SubSeq(nc.stream, nc.pos + 1, nc.pos + r.n), err |-> r.err,
            cc |-> c, conn |-> r.conn] : r \in ConnRead(nc, blen) }

\* a caller invokes Rewind
DoRewind ==
    /\ cachedConn' = Rewind(cachedConn)
    /\ call' = [op |-> "Rewind", n |-> 0, err |-> RewindErr(cachedConn),
                got |-> Len(cachedConn.buffer.data)]
    /\ UNCHANGED <<netConn, replayed, cacheVars, sniffVars, srvVars, caVars>>

\* a caller invokes Prefetch(n)
DoPrefetch ==
    \E n \in 0..MaxRead : \E r \in Prefetch(cachedConn, netConn, n) :
        /\ cachedConn' = r.cc
        /\ netConn' = r.conn
        /\ call' = [op |-> "Prefetch", n |-> n, err |-> r.err, got |-> Len(r.buf)]
        /\ UNCHANGED <<replayed, cacheVars, sniffVars, srvVars, caVars>>

\* a caller invokes Read(b)
DoRead ==
    \E blen \in 0..MaxRead : \E r \in Read(cachedConn, netConn, blen) :
        /\ cachedConn' = r.cc
        /\ netConn' = r.conn
        /\ replayed' = IF cachedConn.used >= 0 THEN replayed \o r.data ELSE replayed
        /\ call' = [op |-> "Read", n |-> blen, err |-> r.err, got |-> Len(r.data)]
        /\ UNCHANGED <<cacheVars, sniffVars, srvVars, caVars>>

Streams == UNION {[1..n -> Bytes] : n \in 0..MaxStream}

InitConn ==
    /\ \E cap \in 1..MaxBufCap : cachedConn = NewCachedConn(cap)
    /\ \E st \in Streams : netConn = [stream |-> st, pos |-> 0, dead |-> FALSE]
    /\ replayed = <<>>

NextConn == DoRewind \/ DoPrefetch \/ DoRead

(***************************************************************************)
(* The sniffers of proxy/sniff.go over byte sequences (bytes are 0..255),  *)
(* and the dispatch serve makes on the 8 bytes peeked after the CONNECT    *)
(* ack.                                                                    *)
(***************************************************************************)
SP == 32
httpMethods ==
    { <<71, 69, 84>>,                   \* GET
      <<80, 79, 83, 84>>,               \* POST
      <<80, 85, 84>>,                   \* PUT
      <<68, 69, 76, 69, 84, 69>>,       \* DELETE
      <<72, 69, 65, 68>>,               \* HEAD
      <<80, 65, 84, 67, 72>>,           \* PATCH
      <<79, 80, 84, 73, 79, 78, 83>>,   \* OPTIONS
      <<67, 79, 78, 78, 69, 67, 84>>,   \* CONNECT
      <<84, 82, 65, 67, 69>> }          \* TRACE

\* bytes.IndexByte(data, c), 0-based, -1 when absent
IndexByte(data, c) ==
    LET at == {i \in 1..Len(data) : data[i] = c}
    IN  IF at = {} THEN -1 ELSE SetMin(at) - 1

\* sniffHTTPMethodPrefix
sniffHTTPMethodPrefix(data) ==
    LET pos == IndexByte(data, SP)
    IN  IF pos = -1 THEN FALSE ELSE Take(data, pos) \in httpMethods

\* sniffTLSHandshakePrefix
sniffTLSHandshakePrefix(data) == data[1] = 22 /\ data[2] = 3 /\ data[3] < 5

\* binary.Uvarint(buf): the number of bytes read, 0 when buf ends first
UvarintLen(buf) ==
    LET ends == {i \in 1..Len(buf) : buf[i] < 128}
    IN  IF ends = {} THEN 0 ELSE SetMin(ends)

\* sniffGcmLoginPrefix
sniffGcmLoginPrefix(data) ==
    IF data[1] # 41 \/ data[2] # 2 THEN FALSE
    ELSE LET n == UvarintLen(Drop(data, 2))
         IN  n > 0 /\ 2 + n < Len(data) /\ data[2 + n + 1] = 10

\* a dispatch that knows the TCP tunnel only
RouteTCPOnly(peekErr, data) == [to |-> "handleTCP", secure |-> FALSE]

\* the same dispatch with every fallback tunnel wrapped in TLS
RouteSecureFallback(peekErr, data) ==
    IF peekErr THEN [to |-> "handleTCP", secure |-> TRUE]
    ELSE IF sniffTLSHandshakePrefix(data) THEN [to |-> "handleTLS", secure |-> FALSE]
    ELSE IF sniffHTTPMethodPrefix(data) THEN [to |-> "handleHTTP", secure |-> FALSE]
    ELSE [to |-> "handleTCP", secure |-> TRUE]

\* serve lines 371-381: the handler chosen after Peek(8)
Route(peekErr, data) ==
    IF peekErr THEN [to |-> "handleTCP", secure |-> FALSE]
    ELSE IF sniffTLSHandshakePrefix(data) THEN [to |-> "handleTLS", secure |-> FALSE]
    ELSE IF sniffHTTPMethodPrefix(data) THEN [to |-> "handleHTTP", secure |-> FALSE]
    ELSE [to |-> "handleTCP", secure |-> FALSE]

\* the same dispatch with the two sniffers tested in the other order
RouteSwapped(peekErr, data) ==
    IF peekErr THEN [to |-> "handleTCP", secure |-> FALSE]
    ELSE IF sniffHTTPMethodPrefix(data) THEN [to |-> "handleHTTP", secure |-> FALSE]
    ELSE IF sniffTLSHandshakePrefix(data) THEN [to |-> "handleTLS", secure |-> FALSE]
    ELSE [to |-> "handleTCP", secure |-> FALSE]

\* The 8-byte prefixes tried: every method followed by a space and padded,
\* every way to fill the first three bytes from an alphabet that holds the
\* TLS header bytes, the space and letters of a method, and a few tails.
SniffAlphabet == {0, 3, 4, 5, 22, SP, 71, 69, 84}
SniffTails == { <<SP, 47, SP, 72, 84>>, <<69, 84, SP, 47, SP>>, <<1, 0, 0, 0, 1>> }
PadTo8(q) == Take(q \o <<SP, 47, SP, 72, 84, 84, 80, 47>>, 8)
SniffInputs ==
    {PadTo8(m) : m \in httpMethods}
        \cup {PadTo8(Take(m, Len(m) - 1)) : m \in httpMethods}
        \cup {Take(m \o <<88, 88, 88, 88, 88, 88, 88, 88>>, 8) : m \in httpMethods}
        \cup {<<a, b, c>> \o t : a, b, c \in SniffAlphabet, t \in SniffTails}

SniffIdle == [pc |-> "peek", err |-> FALSE, data |-> <<>>, route |-> [to |-> "", secure |-> FALSE]]

\* Peek(8) fails: fewer than 8 bytes arrived before EOF or an error
PeekFails ==
    /\ sniff.pc = "peek"
    /\ \E data \in {Take(d, n) : d \in {PadTo8(<<71, 69, 84>>), <<22, 3, 1, 0, 0, 0, 0, 0>>},
                                  n \in 0..7} :
          sniff' = [pc |-> "routed", err |-> TRUE, data |-> data,
                    route |-> Route(TRUE, data)]
    /\ UNCHANGED <<cacheVars, connVars, srvVars, caVars, callVars>>

\* Peek(8) returns 8 bytes
PeekReturns ==
    /\ sniff.pc = "peek"
    /\ \E data \in SniffInputs :
          sniff' = [pc |-> "routed", err |-> FALSE, data |-> data,
                    route |-> Route(FALSE, data)]
    /\ UNCHANGED <<cacheVars, connVars, srvVars, caVars, callVars>>

InitSniff == sniff = SniffIdle

NextSniff == PeekFails \/ PeekReturns

(***************************************************************************)
(* The key derivation of GetCertificate on its own, over every server name *)
(* of up to MaxLabels labels.                                              *)
(***************************************************************************)
SanLabels ==
    {"localhost", "a", "b", "example", "com", "appspot", "aisai", "aichi", "jp",
     "internal", "127", "0"}
SanNames == UNION { [1..n -> SanLabels] : n \in 1..MaxLabels }

\* GetCertificate lines 186-194, asked for serverName
DeriveSan ==
    /\ call.op = "asked"
    /\ call' = [op |-> "derived", name |-> call.name,
                san |-> SanOf(call.name), again |-> SanOf(call.name).key]
    /\ UNCHANGED <<cacheVars, connVars, sniffVars, srvVars, caVars>>

InitSan == \E name \in SanNames : call = [op |-> "asked", name |-> name]

NextSan == DeriveSan

(***************************************************************************)
(* ca.Setup and ca.loadFrom, as main runs them before proxy.NewServer.     *)
(* A CA file is missing, unreadable, or a sequence of PEM blocks; a block  *)
(* is text pem.Decode rejects, a CERTIFICATE, a PRIVATE KEY or a block of  *)
(* another type, and its body parses or does not.                          *)
(***************************************************************************)
KeyAlgs == {"rsa", "ecdsa"}
KeyIds == {1, 2}
NoCaCer == [alg |-> "", id |-> 0, expired |-> FALSE]
NoCaKey == [alg |-> "", id |-> 0]

PemBlocks ==
    { [type |-> "undecodable", ok |-> FALSE, alg |-> "", id |-> 0, expired |-> FALSE],
      [type |-> "CERTIFICATE", ok |-> FALSE, alg |-> "", id |-> 0, expired |-> FALSE],
      [type |-> "PRIVATE KEY", ok |-> FALSE, alg |-> "", id |-> 0, expired |-> FALSE],
      [type |-> "PUBLIC KEY", ok |-> TRUE, alg |-> "", id |-> 0, expired |-> FALSE] }
        \cup { [type |-> "CERTIFICATE", ok |-> TRUE, alg |-> a, id |-> k, expired |-> e] :
                  a \in KeyAlgs, k \in KeyIds, e \in BOOLEAN }
        \cup { [type |-> "PRIVATE KEY", ok |-> TRUE, alg |-> a, id |-> k, expired |-> FALSE] :
                  a \in KeyAlgs, k \in KeyIds }

PemFiles == UNION { [1..n -> PemBlocks] : n \in 0..MaxBlocks }

\* os.ReadFile outcomes: the file's blocks, or an error
CaFiles ==
    { [err |-> "nil", blocks |-> f] : f \in PemFiles }
        \cup { [err |-> "ErrNotExist", blocks |-> <<>>],
               [err |-> "ErrPermission", blocks |-> <<>>] }

\* a verify that does not look at NotAfter
verifyNoExpiry(cer, key) ==
    IF key.alg # cer.alg THEN "private key type does not match certificate"
    ELSE IF key.id # cer.id THEN "private key does not match certificate"
    ELSE "nil"

\* verify(cer, key)
verify(cer, key) ==
    IF cer.expired THEN "certificate has expired"
    ELSE IF key.alg # cer.alg THEN "private key type does not match certificate"
    ELSE IF key.id # cer.id THEN "private key does not match certificate"
    ELSE "nil"

\* loadFrom lines 65-86: the loop over the PEM blocks and the final checks
RECURSIVE loadBlocks(_, _, _)
loadBlocks(blocks, cer, key) ==
    IF blocks = <<>>
    THEN [ err |-> IF cer = NoCaCer THEN "missing ca certificate in pem blocks"
                   ELSE IF key = NoCaKey THEN "missing private key in pem blocks"
                   ELSE verify(cer, key),
           caCer |-> cer, caKey |-> key ]
    ELSE LET b == Head(blocks)
         IN  IF b.type = "undecodable"
             THEN [err |-> "failed to parse pem block", caCer |-> cer, caKey |-> key]
             ELSE IF cer = NoCaCer /\ b.type = "CERTIFICATE"
             THEN IF b.ok
                  THEN loadBlocks(Tail(blocks),
                                  [alg |-> b.alg, id |-> b.id, expired |-> b.expired], key)
                  ELSE [err |-> "x509.ParseCertificate", caCer |-> NoCaCer, caKey |-> key]
             ELSE IF key = NoCaKey /\ b.type = "PRIVATE KEY"
             THEN IF b.ok
                  THEN loadBlocks(Tail(blocks), cer, [alg |-> b.alg, id |-> b.id])
                  ELSE [err |-> "ca.parsePrivateKey", caCer |-> cer, caKey |-> NoCaKey]
             ELSE loadBlocks(Tail(blocks), cer, key)

\* loadFrom(certPath)
loadFrom(file) ==
    IF file.err # "nil"
    THEN [err |-> file.err, caCer |-> NoCaCer, caKey |-> NoCaKey]
    ELSE loadBlocks(file.blocks, NoCaCer, NoCaKey)

\* Setup line 44: the errors after which Setup generates a new root
GeneratesRoot(err) == err = "ErrNotExist"

CaIdle ==
    [ pc |-> "start", file |-> [err |-> "ErrNotExist", blocks |-> <<>>],
      loadErr |-> "", caCer |-> NoCaCer, caKey |-> NoCaKey,
      generated |-> FALSE, saved |-> FALSE ]

\* Setup lines 43-44: loadFrom(fpath) and the test of its error; an error
\* that is not ErrNotExist has no branch, Setup goes on to line 54
SetupLoad ==
    /\ ca.pc = "start"
    /\ LET r == loadFrom(ca.file)
       IN  ca' = [ca EXCEPT !.loadErr = r.err, !.caCer = r.caCer, !.caKey = r.caKey,
                            !.pc = IF r.err # "nil" /\ GeneratesRoot(r.err)
                                   THEN "generate" ELSE "cache"]
    /\ UNCHANGED <<cacheVars, connVars, sniffVars, srvVars, callVars>>

\* Setup lines 46-48: generateRoot succeeds or is fatal
SetupGenerate ==
    /\ ca.pc = "generate"
    /\ \E ok \in BOOLEAN, a \in KeyAlgs, k \in KeyIds :
          ca' = IF ok
                THEN [ca EXCEPT !.pc = "save", !.generated = TRUE,
                                !.caCer = [alg |-> a, id |-> k, expired |-> FALSE],
                                !.caKey = [alg |-> a, id |-> k]]
                ELSE [ca EXCEPT !.pc = "fatal"]
    /\ UNCHANGED <<cacheVars, connVars, sniffVars, srvVars, callVars>>

\* saveAs writes the key block, then the certificate block
saveAs(cer, key) ==
    [err |-> "nil",
     blocks |-> << [type |-> "PRIVATE KEY", ok |-> TRUE, alg |-> key.alg, id |-> key.id,
                    expired |-> FALSE],
                   [type |-> "CERTIFICATE", ok |-> TRUE, alg |-> cer.alg, id |-> cer.id,
                    expired |-> cer.expired] >>]

\* Setup lines 49-51: saveAs succeeds or is fatal
SetupSave ==
    /\ ca.pc = "save"
    /\ \E ok \in BOOLEAN :
          ca' = IF ok
                THEN [ca EXCEPT !.pc = "cache", !.saved = TRUE,
                                !.file = saveAs(ca.caCer, ca.caKey)]
                ELSE [ca EXCEPT !.pc = "fatal"]
    /\ UNCHANGED <<cacheVars, connVars, sniffVars, srvVars, callVars>>

\* Setup line 54: tlsCerCache = NewCache(128); Setup returns to main
SetupCache ==
    /\ ca.pc = "cache"
    /\ cache' = NewCache(MaxCap)
    /\ ca' = [ca EXCEPT !.pc = "setup done"]
    /\ UNCHANGED <<gc, connVars, sniffVars, srvVars, callVars>>

\* main line 29: proxy.NewServer
MainNewServer ==
    /\ ca.pc = "setup done"
    /\ ca' = [ca EXCEPT !.pc = "server created"]
    /\ UNCHANGED <<cacheVars, connVars, sniffVars, srvVars, callVars>>

InitCA == \E f \in CaFiles : ca = [CaIdle EXCEPT !.file = f]

NextCA == SetupLoad \/ SetupGenerate \/ SetupSave \/ SetupCache \/ MainNewServer

(***************************************************************************)
(* proxy.Server: ListenAndServe, serve with its handlers, trackConn,       *)
(* Shutdown and notifyTrackedConns.                                        *)
(*                                                                         *)
(* A goroutine takes one step per action.  Steps that only touch the       *)
(* goroutine's own data are folded into the step before them, so the       *)
(* handler's positions are the places where serve blocks (on the client,   *)
(* on the upstream, on Cache.mu or Server.mu).  What the client and the    *)
(* upstream do is the nondeterministic outcome of the blocking call; a     *)
(* peer that stays silent is the step that is never taken.                 *)
(***************************************************************************)
LasCallers == {1}

\* The first requests clients send.  host is req.URL.Host, name the host
\* name of req.Host as domain labels.
Requests ==
    << [method |-> "GET",     host |-> "example.com",     path |-> "/",       scheme |-> "http"],
       [method |-> "GET",     host |-> "",                path |-> "/status", scheme |-> ""],
       [method |-> "POST",    host |-> "",                path |-> "/status", scheme |-> ""],
       [method |-> "CONNECT", host |-> "example.com:443", path |-> "",        scheme |-> ""],
       [method |-> "CONNECT", host |-> "",                path |-> "/status", scheme |-> ""] >>
ReqIds == 1..Len(Requests)
HostName == <<"example", "com">>

\* the server names a ClientHello may carry; <<>> is a hello without SNI
SniNames == { <<>>, <<"a", "example", "com">> }

\* 8-byte prefixes a client may send after the CONNECT ack or inside TLS
PeekInputs ==
    { <<22, 3, 1, 2, 0, 1, 0, 1>>,          \* a TLS ClientHello record
      PadTo8(<<71, 69, 84>>),               \* "GET / HT"
      PadTo8(<<67, 79, 78, 78, 69, 67, 84>>), \* "CONNECT "
      <<83, 83, 72, 45, 50, 46, 48, 45>>,   \* "SSH-2.0-"
      <<41, 2, 151, 1, 10, 20, 99, 104>> }  \* a GCM login request

\* no request has been forwarded
NoFwd == [from |-> "none", scheme |-> ""]

HsNone ==
    [ pc |-> "none",        \* where the serve goroutine is
      req |-> 0,            \* the first request read (index in Requests)
      acks |-> 0,           \* "Connection established" responses written
      reply |-> "",         \* the local reply of handleRequest
      route |-> "",         \* the handler serve chose after Peek(8)
      fwd |-> NoFwd,        \* the request handed to transport.RoundTrip
      secure |-> FALSE,     \* handleTCP's secure argument
      tls |-> FALSE,        \* the client side is served through tls.Server
      inner |-> <<>>,       \* the method of the request read inside TLS
      closed |-> FALSE,     \* bufioConn.Close() has closed the client conn
      cancelled |-> FALSE,  \* the connection's cancel func has been invoked
      up |-> "none",        \* the upstream connection of handleTCP
      c2u |-> FALSE,        \* io.Copy(upstream, conn) has returned
      u2c |-> FALSE,        \* io.Copy(conn, upstream) has returned
      held |-> {},          \* what the handler has acquired and not released
      defers |-> {},        \* what its deferred calls will release
      panicked |-> FALSE,   \* serve's deferred func has recovered a panic
      afterPanic |-> FALSE ] \* accepted after some handler had panicked

\* serve's deferred function: bufioConn.Close(), with the deferred Close of
\* whatever the handler opened; trackConn(.., false) is the next step.  The
\* handler's locals are gone; what the peers saw of it stays.
Exit(r) ==
    [HsNone EXCEPT !.pc = "untrack", !.req = r.req, !.acks = r.acks,
                   !.reply = r.reply, !.closed = TRUE, !.cancelled = r.cancelled,
                   !.up = IF r.up = "open" /\ r.defers \cap {"upstream", "body"} # {}
                          THEN "closed" ELSE r.up,
                   !.held = r.held \ r.defers,
                   !.panicked = r.panicked, !.afterPanic = r.afterPanic]

\* a resource is acquired without a deferred release
AcquireNoDefer(r, res) == [r EXCEPT !.held = @ \cup {res}]

\* a resource is acquired and its Close (or its return to the pool) deferred:
\* NewBufioConn / bufioConn.Close in serve and handleTLS, NewCachedConn /
\* cachedConn.Close and tls.Server / tlsConn.Close in handleTLS, Dial /
\* upstream.Close in handleTCP, RoundTrip / res.Body.Close in handleHTTP,
\* newBuffer / putBuffer in handleRequest
Acquire(r, res) == [r EXCEPT !.held = @ \cup {res}, !.defers = @ \cup {res}]

\* serve has returned and the connection is no longer tracked
Exited(r) == [r EXCEPT !.pc = "exited", !.cancelled = FALSE]

\* handleTCP(conn, req, secure) up to the blocking Dial
EnterTCP(r, secure) == [r EXCEPT !.pc = "dial", !.secure = secure]

\* handleHTTP(conn, req) up to the blocking RoundTrip
EnterHTTP(r, from, scheme) ==
    [r EXCEPT !.pc = "roundtrip", !.fwd = [from |-> from, scheme |-> scheme]]

\* Server.trackConn
trackConn(s, conn, add) ==
    [s EXCEPT !.tracked = IF add THEN @ \cup {conn} ELSE @ \ {conn}]

\* ListenAndServe lines 321-326: the shutdown and already-listening checks
LasCheck(i) ==
    /\ las[i].pc = "idle"
    /\ las' = [las EXCEPT ![i] =
                 IF srv.shutdown THEN [pc |-> "returned", ret |-> "ErrServerClosed"]
                 ELSE IF srv.listener # 0 THEN [pc |-> "returned", ret |-> "already listening"]
                 ELSE [pc |-> "listen", ret |-> ""]]
    /\ UNCHANGED <<srv, sd, hs, cacheVars, connVars, sniffVars, caVars, callVars>>

\* ListenAndServe lines 328-333: listenerWg.Add(1) and a net.Listen that binds
LasListen(i) ==
    /\ las[i].pc = "listen"
    /\ srv' = [srv EXCEPT !.wg = @ + 1, !.listener = i, !.bound[i] = "open"]
    /\ las' = [las EXCEPT ![i].pc = "accept"]
    /\ UNCHANGED <<sd, hs, cacheVars, connVars, sniffVars, caVars, callVars>>

\* ListenAndServe lines 328-333: net.Listen fails; the deferred Done runs
LasListenErr(i) ==
    /\ las[i].pc = "listen"
    /\ srv' = [srv EXCEPT !.listener = 0]
    /\ las' = [las EXCEPT ![i] = [pc |-> "returned", ret |-> "listen error"]]
    /\ UNCHANGED <<sd, hs, cacheVars, connVars, sniffVars, caVars, callVars>>

\* ListenAndServe lines 336-343: Accept returns a connection, go s.serve(conn)
LasAccept(i) ==
    /\ las[i].pc = "accept"
    /\ srv.listener # 0 /\ srv.bound[srv.listener] = "open"
    /\ \E h \in Conns :
          /\ hs[h].pc = "none"
          /\ \A g \in Conns : g < h => hs[g].pc # "none"
          /\ hs' = [hs EXCEPT ![h].pc = "spawned",
                               ![h].afterPanic = \E g \in Conns : hs[g].panicked]
    /\ UNCHANGED <<srv, las, sd, cacheVars, connVars, sniffVars, caVars, callVars>>

\* ListenAndServe lines 336-342: Accept fails on the listener Shutdown has
\* closed; the deferred listenerWg.Done runs
LasAcceptClosed(i) ==
    /\ las[i].pc = "accept"
    /\ srv.listener # 0 /\ srv.bound[srv.listener] = "closed"
    /\ las' = [las EXCEPT ![i] =
                 [pc |-> "returned",
                  ret |-> IF srv.shutdown THEN "ErrServerClosed" ELSE "accept error"]]
    /\ srv' = [srv EXCEPT !.wg = @ - 1]
    /\ UNCHANGED <<sd, hs, cacheVars, connVars, sniffVars, caVars, callVars>>

\* ListenAndServe lines 336-342: Accept fails with an error of its own
LasAcceptErr(i) ==
    /\ las[i].pc = "accept"
    /\ srv.listener # 0 /\ srv.bound[srv.listener] = "open"
    /\ las' = [las EXCEPT ![i] =
                 [pc |-> "returned",
                  ret |-> IF srv.shutdown THEN "ErrServerClosed" ELSE "accept error"]]
    /\ srv' = [srv EXCEPT !.wg = @ - 1]
    /\ UNCHANGED <<sd, hs, cacheVars, connVars, sniffVars, caVars, callVars>>

\* the same test with the method looked at first
ClassifyMethodFirst(req) ==
    IF req.method = "CONNECT" THEN "connect"
    ELSE IF req.host = "" THEN "handleRequest"
    ELSE "handleHTTP"

\* serve lines 366-384: the branch taken for the first request
Classify(req) ==
    IF req.host = "" THEN "handleRequest"
    ELSE IF req.method = "CONNECT" THEN "connect"
    ELSE "handleHTTP"

\* a local answer that is the status document for every request
handleRequestAlwaysStatus(req) == "200 OK"

\* handleRequest: the status document or 400
handleRequest(req) ==
    IF req.method = "GET" /\ req.path = "/status" THEN "200 OK" ELSE "400 Bad Request"

\* serve line 357: the goroutine starts and registers the connection
HandlerStart(h) ==
    /\ hs[h].pc = "spawned"
    /\ srv' = trackConn(srv, h, TRUE)
    /\ hs' = [hs EXCEPT ![h] = Acquire([@ EXCEPT !.pc = "read"], "bufioReader")]
    /\ UNCHANGED <<las, sd, cacheVars, connVars, sniffVars, caVars, callVars>>

\* serve lines 359-363: http.ReadRequest fails
HandlerReadErr(h) ==
    /\ hs[h].pc = "read"
    /\ hs' = [hs EXCEPT ![h] = Exit(@)]
    /\ UNCHANGED <<srv, las, sd, cacheVars, connVars, sniffVars, caVars, callVars>>

\* serve lines 359-384: the first request is read and classified
HandlerRead(h) ==
    /\ hs[h].pc = "read"
    /\ \E r \in ReqIds :
          LET req == Requests[r]
              got == [hs[h] EXCEPT !.req = r]
              to  == Classify(req)
          IN  hs' = [hs EXCEPT ![h] =
                       IF to = "handleRequest"
                       THEN Exit(LET out == [got EXCEPT !.reply = handleRequest(req)]
                                 IN  IF out.reply = "200 OK"
                                     THEN Acquire(out, "statusBuffer") ELSE out)
                       ELSE IF to = "connect"
                       THEN [got EXCEPT !.acks = @ + 1, !.pc = "peek"]
                       ELSE EnterHTTP(got, "first", req.scheme)]
    /\ UNCHANGED <<srv, las, sd, cacheVars, connVars, sniffVars, caVars, callVars>>

\* serve lines 371-373: Peek(8) fails (the client closed or sent less)
HandlerPeekErr(h) ==
    /\ hs[h].pc = "peek"
    /\ LET to == Route(TRUE, <<>>)
       IN  hs' = [hs EXCEPT ![h] = EnterTCP([@ EXCEPT !.route = to.to], to.secure)]
    /\ UNCHANGED <<srv, las, sd, cacheVars, connVars, sniffVars, caVars, callVars>>

\* serve lines 371-381: Peek(8) returns the client's next eight bytes
HandlerPeek(h) ==
    /\ hs[h].pc = "peek"
    /\ \E data \in PeekInputs :
          LET to  == Route(FALSE, data)
              got == [hs[h] EXCEPT !.route = to.to]
          IN  hs' = [hs EXCEPT ![h] =
                       IF to.to = "handleTLS"
                       THEN Acquire([got EXCEPT !.pc = "sniff"], "buffer")
                       ELSE IF to.to = "handleHTTP"
                       THEN EnterHTTP(got, "first", Requests[got.req].scheme)
                       ELSE EnterTCP(got, to.secure)]
    /\ UNCHANGED <<srv, las, sd, cacheVars, connVars, sniffVars, caVars, callVars>>

\* handleTLS lines 131-137: sniffTLSHandshakeServerName fails
HandlerSniffErr(h) ==
    /\ hs[h].pc = "sniff"
    /\ hs' = [hs EXCEPT ![h] = EnterTCP(@, FALSE)]
    /\ UNCHANGED <<srv, las, sd, cacheVars, connVars, sniffVars, caVars, callVars>>

\* handleTLS lines 131-143: the server name is found (or taken from
\* req.Host), and ca.GetCertificate is entered
HandlerSniff(h) ==
    /\ hs[h].pc = "sniff"
    /\ \E sni \in SniNames :
          GetCertificateLoad(h, IF sni = <<>> THEN HostName ELSE sni)
    /\ hs' = [hs EXCEPT ![h].pc = "cert"]
    /\ UNCHANGED <<srv, las, sd, connVars, sniffVars, caVars, callVars>>

\* handleTLS lines 143-154: GetCertificate returns; tls.Server on success
HandlerCertDone(h) ==
    /\ hs[h].pc = "cert"
    /\ GetCertificateReturn(h)
    /\ hs' = [hs EXCEPT ![h] =
                IF gc[h].err THEN EnterTCP(@, FALSE)
                ELSE Acquire(Acquire([@ EXCEPT !.pc = "tlspeek", !.tls = TRUE],
                                     "tlsConn"), "tlsBufioReader")]
    /\ UNCHANGED <<srv, las, sd, connVars, sniffVars, caVars, callVars>>

\* handleTLS lines 155-157: Peek(8) on the decrypted stream fails
HandlerTLSPeekErr(h) ==
    /\ hs[h].pc = "tlspeek"
    /\ hs' = [hs EXCEPT ![h] = EnterTCP(@, TRUE)]
    /\ UNCHANGED <<srv, las, sd, cacheVars, connVars, sniffVars, caVars, callVars>>

\* handleTLS lines 155-173: Peek(8) on the decrypted stream
HandlerTLSPeek(h) ==
    /\ hs[h].pc = "tlspeek"
    /\ \E data \in PeekInputs :
          hs' = [hs EXCEPT ![h] =
                   IF sniffHTTPMethodPrefix(data)
                   THEN [@ EXCEPT !.pc = "tlsread",
                                  !.inner = Take(data, IndexByte(data, SP))]
                   ELSE IF sniffGcmLoginPrefix(data) THEN EnterTCP(@, TRUE)
                   ELSE EnterTCP(@, TRUE)]
    /\ UNCHANGED <<srv, las, sd, cacheVars, connVars, sniffVars, caVars, callVars>>

\* handleTLS lines 159-163: http.ReadRequest on the decrypted stream fails
HandlerTLSReadErr(h) ==
    /\ hs[h].pc = "tlsread"
    /\ hs' = [hs EXCEPT ![h] = Exit(@)]
    /\ UNCHANGED <<srv, las, sd, cacheVars, connVars, sniffVars, caVars, callVars>>

\* handleTLS lines 159-166: the inner request is read and rewritten
HandlerTLSRead(h) ==
    /\ hs[h].pc = "tlsread"
    /\ hs' = [hs EXCEPT ![h] = EnterHTTP(@, "inner", "https")]
    /\ UNCHANGED <<srv, las, sd, cacheVars, connVars, sniffVars, caVars, callVars>>

\* handleHTTP lines 100-104: RoundTrip fails
HandlerRoundTripErr(h) ==
    /\ hs[h].pc = "roundtrip"
    /\ hs' = [hs EXCEPT ![h] = Exit(@)]
    /\ UNCHANGED <<srv, las, sd, cacheVars, connVars, sniffVars, caVars, callVars>>

\* handleHTTP lines 100-118: RoundTrip answers; a plain response is written
\* to the client, an upgraded one is copied in both directions
HandlerRoundTrip(h) ==
    /\ hs[h].pc = "roundtrip"
    /\ \E upgraded \in BOOLEAN :
          hs' = [hs EXCEPT ![h] =
                   IF upgraded
                   THEN Acquire([@ EXCEPT !.pc = "tunnel", !.up = "open"], "body")
                   ELSE Exit(Acquire(@, "body"))]
    /\ UNCHANGED <<srv, las, sd, cacheVars, connVars, sniffVars, caVars, callVars>>

\* handleTCP lines 65-69: Dial fails
HandlerDialErr(h) ==
    /\ hs[h].pc = "dial"
    /\ hs' = [hs EXCEPT ![h] = Exit(@)]
    /\ UNCHANGED <<srv, las, sd, cacheVars, connVars, sniffVars, caVars, callVars>>

\* handleTCP lines 65-80: Dial succeeds and the two copies start
HandlerDial(h) ==
    /\ hs[h].pc = "dial"
    /\ hs' = [hs EXCEPT ![h] =
                Acquire([@ EXCEPT !.pc = "tunnel", !.up = "open"], "upstream")]
    /\ UNCHANGED <<srv, las, sd, cacheVars, connVars, sniffVars, caVars, callVars>>

\* handleTCP lines 82-83: io.Copy(upstream, conn) returns (the client ended
\* its side); with the other copy done, wg.Wait returns and handleTCP ends
HandlerCopyUp(h) ==
    /\ hs[h].pc = "tunnel" /\ ~hs[h].c2u
    /\ hs' = [hs EXCEPT ![h] =
                IF @.u2c THEN Exit([@ EXCEPT !.c2u = TRUE]) ELSE [@ EXCEPT !.c2u = TRUE]]
    /\ UNCHANGED <<srv, las, sd, cacheVars, connVars, sniffVars, caVars, callVars>>

\* handleTCP lines 78-81: io.Copy(conn, upstream) returns (the upstream ended)
HandlerCopyDown(h) ==
    /\ hs[h].pc = "tunnel" /\ ~hs[h].u2c
    /\ hs' = [hs EXCEPT ![h] =
                IF @.c2u THEN Exit([@ EXCEPT !.u2c = TRUE]) ELSE [@ EXCEPT !.u2c = TRUE]]
    /\ UNCHANGED <<srv, las, sd, cacheVars, connVars, sniffVars, caVars, callVars>>

\* a panic that nothing recovers: the goroutine dies where it stands
Unrecovered(r) == [r EXCEPT !.pc = "crashed", !.panicked = TRUE]

\* serve lines 350-354: the deferred func recovers the panic, logs it and
\* closes the connection, after the deferred calls of the handler that was
\* running have released what it held
Recover(r) == Exit([r EXCEPT !.panicked = TRUE])

\* where the serve goroutine runs handler code
HandlerPcs ==
    {"read", "peek", "sniff", "cert", "tlspeek", "tlsread", "roundtrip", "dial", "tunnel"}

\* a panic in the serve goroutine, at any point of the handler; inside
\* ca.GetCertificate it can only come from generateLeaf, outside Cache.mu
HandlerPanic(h) ==
    /\ hs[h].pc \in HandlerPcs
    /\ hs[h].pc = "cert" => gc[h].pc = "mint"
    /\ hs' = [hs EXCEPT ![h] = Recover(@)]
    /\ gc' = IF hs[h].pc = "cert"
             THEN [q \in GcIds |->
                     IF q = h THEN GcIdle ELSE [gc[q] EXCEPT !.raced = @ \ {h}]]
             ELSE gc
    /\ UNCHANGED <<cache, srv, las, sd, connVars, sniffVars, caVars, callVars>>

\* serve line 355: the deferred trackConn(bufioConn, cancel, false)
HandlerUntrack(h) ==
    /\ hs[h].pc = "untrack"
    /\ srv' = trackConn(srv, h, FALSE)
    /\ hs' = [hs EXCEPT ![h] = Exited(@)]
    /\ UNCHANGED <<las, sd, cacheVars, connVars, sniffVars, caVars, callVars>>

\* a select that never takes the ctx.Done case
CtxDoneNever(done) == FALSE

\* the ctx.Done case of Shutdown's select can be taken
CtxDoneReady(done) == done

\* a Shutdown that leaves the flag alone
StoreNothing(s) == s

\* Shutdown line 401: s.shutdown.Store(true)
StoreShutdown(s) == [s EXCEPT !.shutdown = TRUE]

SdIdle == [pc |-> "idle", err |-> "", ctxDone |-> FALSE, idle |-> {}]

\* Shutdown line 401: s.shutdown.Store(true).  sd.idle remembers the
\* handlers that are waiting for their client's first tunnel bytes.
SdStart ==
    /\ sd.pc = "idle"
    /\ srv' = StoreShutdown(srv)
    /\ sd' = [sd EXCEPT !.pc = "close", !.idle = {h \in Conns : hs[h].pc = "peek"}]
    /\ UNCHANGED <<las, hs, cacheVars, connVars, sniffVars, caVars, callVars>>

\* Shutdown line 402: s.listener.Close(); a nil listener is a nil
\* dereference that panics in the caller
SdClose ==
    /\ sd.pc = "close"
    /\ IF srv.listener = 0
       THEN /\ sd' = [sd EXCEPT !.pc = "panicked"]
            /\ UNCHANGED srv
       ELSE /\ sd' = [sd EXCEPT !.pc = "wait", !.err = "nil"]
            /\ srv' = [srv EXCEPT !.bound[srv.listener] = "closed"]
    /\ UNCHANGED <<las, hs, cacheVars, connVars, sniffVars, caVars, callVars>>

\* Shutdown lines 403-424: listenerWg.Wait() returns, the key log is closed
\* and the poll timer is created
SdWait ==
    /\ sd.pc = "wait"
    /\ srv.wg = 0
    /\ sd' = [sd EXCEPT !.pc = "poll"]
    /\ UNCHANGED <<srv, las, hs, cacheVars, connVars, sniffVars, caVars, callVars>>

\* a poll that invokes no cancel func
notifyNobody(handlers, tracked) == handlers

\* notifyTrackedConns: invoke every tracked cancel func, report emptiness
notifyTrackedConns(handlers, tracked) ==
    [h \in DOMAIN handlers |->
        IF h \in tracked THEN [handlers[h] EXCEPT !.cancelled = TRUE] ELSE handlers[h]]

\* Shutdown lines 426-429: one poll of the tracked set
SdPoll ==
    /\ sd.pc = "poll"
    /\ hs' = notifyTrackedConns(hs, srv.tracked)
    /\ sd' = [sd EXCEPT !.pc = IF srv.tracked = {} THEN "returned" ELSE "select"]
    /\ UNCHANGED <<srv, las, cacheVars, connVars, sniffVars, caVars, callVars>>

\* Shutdown lines 433-434: the poll timer fires and is reset
SdTimer ==
    /\ sd.pc = "select"
    /\ sd' = [sd EXCEPT !.pc = "poll"]
    /\ UNCHANGED <<srv, las, hs, cacheVars, connVars, sniffVars, caVars, callVars>>

\* Shutdown lines 431-432: ctx is done, Shutdown returns ctx.Err()
SdCtxDone ==
    /\ sd.pc = "select"
    /\ CtxDoneReady(sd.ctxDone)
    /\ sd' = [sd EXCEPT !.pc = "returned", !.err = "ctx"]
    /\ UNCHANGED <<srv, las, hs, cacheVars, connVars, sniffVars, caVars, callVars>>

\* the deadline of the context handed to Shutdown passes
CtxExpire ==
    /\ sd.pc # "idle"
    /\ ~sd.ctxDone
    /\ sd' = [sd EXCEPT !.ctxDone = TRUE]
    /\ UNCHANGED <<srv, las, hs, cacheVars, connVars, sniffVars, caVars, callVars>>

\* NewServer, after ca.Setup has created the certificate cache
InitSrv ==
    /\ srv = [shutdown |-> FALSE, listener |-> 0,
              bound |-> [i \in LasCallers |-> "none"], wg |-> 0, tracked |-> {}]
    /\ las = [i \in LasCallers |-> [pc |-> "idle", ret |-> ""]]
    /\ sd = SdIdle
    /\ hs = [h \in Conns |-> HsNone]

NextSrv ==
    \/ \E i \in LasCallers :
          \/ LasCheck(i)
          \/ LasListen(i)
          \/ LasListenErr(i)
          \/ LasAccept(i)
          \/ LasAcceptClosed(i)
          \/ LasAcceptErr(i)
    \/ \E h \in Conns :
          \/ HandlerStart(h)
          \/ HandlerReadErr(h)
          \/ HandlerRead(h)
          \/ HandlerPeekErr(h)
          \/ HandlerPeek(h)
          \/ HandlerSniffErr(h)
          \/ HandlerSniff(h)
          \/ CallMintOk(h)
          \/ CallMintErr(h)
          \/ CallStore(h)
          \/ HandlerCertDone(h)
          \/ HandlerTLSPeekErr(h)
          \/ HandlerTLSPeek(h)
          \/ HandlerTLSReadErr(h)
          \/ HandlerTLSRead(h)
          \/ HandlerRoundTripErr(h)
          \/ HandlerRoundTrip(h)
          \/ HandlerDialErr(h)
          \/ HandlerDial(h)
          \/ HandlerCopyUp(h)
          \/ HandlerCopyDown(h)
          \/ HandlerUntrack(h)
    \/ SdStart
    \/ SdClose
    \/ SdWait
    \/ SdPoll
    \/ SdTimer
    \/ SdCtxDone
    \/ CtxExpire

(***************************************************************************)
(* ListenAndServe called from several goroutines on one Server, with       *)
(* Shutdown.  Nothing orders the callers: the checks of lines 321-326 and  *)
(* the assignment of s.listener at line 330 are not under a lock.          *)
(***************************************************************************)
ListenCallers == 1..NumCallers

\* ListenAndServe line 336: s.listener was set to nil by another caller's
\* failed net.Listen; Accept on it is a nil dereference that panics, and the
\* deferred listenerWg.Done runs
LasAcceptNil(i) ==
    /\ las[i].pc = "accept"
    /\ srv.listener = 0
    /\ las' = [las EXCEPT ![i] = [pc |-> "panicked", ret |-> ""]]
    /\ srv' = [srv EXCEPT !.wg = @ - 1]
    /\ UNCHANGED <<sd, hs, cacheVars, connVars, sniffVars, caVars, callVars>>

InitListen ==
    /\ srv = [shutdown |-> FALSE, listener |-> 0,
              bound |-> [i \in ListenCallers |-> "none"], wg |-> 0, tracked |-> {}]
    /\ las = [i \in ListenCallers |-> [pc |-> "idle", ret |-> ""]]
    /\ sd = SdIdle
    /\ hs = [h \in Conns |-> HsNone]

NextListen ==
    \/ \E i \in ListenCallers :
          \/ LasCheck(i)
          \/ LasListen(i)
          \/ LasListenErr(i)
          \/ LasAccept(i)
          \/ LasAcceptClosed(i)
          \/ LasAcceptErr(i)
          \/ LasAcceptNil(i)
    \/ SdStart
    \/ SdClose
    \/ SdWait
    \/ SdPoll

(***************************************************************************)
(* One CONNECT after its acknowledgement, byte by byte: the client's bytes *)
(* after the request head pass through the bufio.Reader of the BufioConn,  *)
(* through Peek(8), through the CachedConn while the SNI is sniffed, and   *)
(* through io.Copy to the upstream.  replayed holds what the upstream has  *)
(* received.  The upstream takes every byte written to it.                 *)
(***************************************************************************)
PeekLen == 8
recordHeaderLen == 5
recordTypeHandshake == 22
messageTypeClientHello == 1

\* The first 8 bytes clients send: TLS records of length 3, 1, 2, 0 and 4,
\* the start of an SSH banner and the start of an HTTP request.
TunnelPrefixes ==
    { <<22, 3, 1, 0, 3, 1, 0, 0>>,
      <<22, 3, 1, 0, 1, 1, 0, 0>>,
      <<22, 3, 3, 0, 2, 2, 0, 0>>,
      <<22, 3, 1, 0, 0, 0, 0, 0>>,
      <<22, 3, 1, 0, 4, 1, 0, 0>>,
      <<83, 83, 72, 45, 50, 46, 48, 45>>,
      PadTo8(<<71, 69, 84>>) }
TunnelStreams ==
    {q \o t : q \in TunnelPrefixes, t \in UNION {[1..n -> Bytes] : n \in 0..MaxTail}}

\* the capacity of the pooled recording buffer: one that holds the record
\* header and a single byte more, and one that holds every stream
TunnelCaps == {recordHeaderLen + 1, PeekLen + MaxTail}

\* parseHandshakeRecord: a record that is no ClientHello is an error; the
\* body of a ClientHello is not enumerated: it yields a name, an error, or
\* an index out of range that panics
parseHandshakeRecord(data) ==
    IF data[1] # messageTypeClientHello THEN {"err"} ELSE {"name", "err", "panic"}

TunnelStart == [op |-> "tunnel", pc |-> "peek", via |-> "", outcome |-> "", len |-> 0]

\* handleTCP is entered with conn and the reason: a Peek that failed, a
\* prefix that is neither TLS nor HTTP, a Prefetch that failed while
\* sniffing, a record the sniffer rejects, or a failed leaf mint
FallBack(via, outcome) == [TunnelStart EXCEPT !.pc = "dial", !.via = via, !.outcome = outcome]

\* serve lines 370-381: Peek(8) and the dispatch on its result
TunnelPeek ==
    /\ call.pc = "peek"
    /\ \E r \in Peek(netConn, PeekLen) :
          /\ netConn' = r.conn
          /\ call' = IF r.err THEN FallBack("bufioConn", "peek error")
                     ELSE IF Route(r.err, r.data).to = "handleTLS"
                          THEN [call EXCEPT !.pc = "sniff"]
                     ELSE IF Route(r.err, r.data).to = "handleHTTP"
                          THEN [call EXCEPT !.pc = "handleHTTP"]
                     ELSE FallBack("bufioConn", "unknown prefix")
    /\ UNCHANGED <<cachedConn, replayed, cacheVars, sniffVars, srvVars, caVars>>

\* sniffTLSHandshakeServerName lines 83-93: the record header; on an error
\* handleTLS rewinds and falls back to handleTCP(cachedConn)
TunnelSniffHeader ==
    /\ call.pc = "sniff"
    /\ \E r \in Prefetch(cachedConn, netConn, recordHeaderLen) :
          LET hdrOk == /\ ~r.err
                       /\ Len(r.buf) = recordHeaderLen
                       /\ r.buf[1] = recordTypeHandshake
              recordLength == IF hdrOk THEN r.buf[4] * 256 + r.buf[5] ELSE 0
          IN  /\ netConn' = r.conn
              /\ IF hdrOk /\ recordLength > 0 /\ recordLength <= 16384
                 THEN /\ cachedConn' = r.cc
                      /\ call' = [call EXCEPT !.pc = "record", !.len = recordLength]
                 ELSE /\ cachedConn' = Rewind(r.cc)
                      /\ call' = FallBack("cachedConn",
                                          IF r.err THEN "sniff failure"
                                          ELSE "invalid record")
    /\ UNCHANGED <<replayed, cacheVars, sniffVars, srvVars, caVars>>

\* sniffTLSHandshakeServerName lines 95-101 and handleTLS lines 131-136:
\* the record body and its parse
TunnelSniffRecord ==
    /\ call.pc = "record"
    /\ \E r \in Prefetch(cachedConn, netConn, call.len) :
          /\ netConn' = r.conn
          /\ IF r.err \/ Len(r.buf) # call.len
             THEN /\ cachedConn' = Rewind(r.cc)
                  /\ call' = FallBack("cachedConn", "sniff failure")
             ELSE \E res \in parseHandshakeRecord(r.buf) :
                     /\ cachedConn' = IF res = "panic" THEN r.cc ELSE Rewind(r.cc)
                     /\ call' = IF res = "panic" THEN [call EXCEPT !.pc = "panicked"]
                                ELSE IF res = "err"
                                     THEN FallBack("cachedConn", "invalid record")
                                ELSE [call EXCEPT !.pc = "mint"]
    /\ UNCHANGED <<replayed, cacheVars, sniffVars, srvVars, caVars>>

\* handleTLS lines 141-146: ca.GetCertificate fails
TunnelMintErr ==
    /\ call.pc = "mint"
    /\ call' = FallBack("cachedConn", "mint failure")
    /\ UNCHANGED <<connVars, cacheVars, sniffVars, srvVars, caVars>>

\* handleTLS lines 141-151: the leaf is there, the connection is intercepted
TunnelMintOk ==
    /\ call.pc = "mint"
    /\ call' = [call EXCEPT !.pc = "intercept"]
    /\ UNCHANGED <<connVars, cacheVars, sniffVars, srvVars, caVars>>

\* handleTCP lines 65-74: the upstream is dialled
TunnelDial ==
    /\ call.pc = "dial"
    /\ call' = [call EXCEPT !.pc = "copy"]
    /\ UNCHANGED <<connVars, cacheVars, sniffVars, srvVars, caVars>>

\* handleTCP lines 65-69: the dial fails, there is no tunnel
TunnelDialErr ==
    /\ call.pc = "dial"
    /\ call' = [call EXCEPT !.pc = "closed"]
    /\ UNCHANGED <<connVars, cacheVars, sniffVars, srvVars, caVars>>

\* handleTCP line 84, io.Copy(upstream, conn): one Read of conn and the
\* Write of what it returned; the copy ends with the first Read error
TunnelCopy ==
    /\ call.pc = "copy"
    /\ \E blen \in 1..MaxRead :
          \/ /\ call.via = "bufioConn"
             /\ \E r \in ConnRead(netConn, blen) :
                   /\ netConn' = r.conn
                   /\ replayed' = replayed \o SubSeq(netConn.stream, netConn.pos + 1,
                                                     netConn.pos + r.n)
                   /\ call' = [call EXCEPT !.pc = IF r.err THEN "done" ELSE "copy"]
             /\ UNCHANGED cachedConn
          \/ /\ call.via = "cachedConn"
             /\ \E r \in Read(cachedConn, netConn, blen) :
                   /\ netConn' = r.conn
                   /\ cachedConn' = r.cc
                   /\ replayed' = replayed \o r.data
                   /\ call' = [call EXCEPT !.pc = IF r.err THEN "done" ELSE "copy"]
    /\ UNCHANGED <<cacheVars, sniffVars, srvVars, caVars>>

InitTunnel ==
    /\ \E st \in TunnelStreams : \E have \in 0..Len(st) : netConn = NewBufioConn(st, have)
    /\ \E cap \in TunnelCaps : cachedConn = NewCachedConn(cap)
    /\ replayed = <<>>
    /\ call = TunnelStart

NextTunnel ==
    \/ TunnelPeek
    \/ TunnelSniffHeader
    \/ TunnelSniffRecord
    \/ TunnelMintErr
    \/ TunnelMintOk
    \/ TunnelDial
    \/ TunnelDialErr
    \/ TunnelCopy

(***************************************************************************)
(* The cache on its own: Load and LoadOrStore called one after the other   *)
(* (Cache.mu makes each call atomic) with any key and certificate.  Beside *)
(* the cache runs a reference LRU, the keys in order of their last use,    *)
(* most recent first; ins is the sequence of keys inserted so far, kept as *)
(* long as pure holds: they were distinct and no call was a hit.           *)
(***************************************************************************)
CacheKeys == {SanOf(n).key : n \in ServerNames}
CertsOf(key) == {[serial |-> n, dns |-> <<key>>, ips |-> <<>>] : n \in 0..1}

RECURSIVE Without(_, _)
Without(q, key) ==
    IF q = <<>> THEN <<>>
    ELSE IF Head(q) = key THEN Without(Tail(q), key)
    ELSE <<Head(q)>> \o Without(Tail(q), key)

\* the reference LRU after a use of key
RefUse(ref, cap, key) ==
    LET w == <<key>> \o Without(ref, key)
    IN  IF Len(w) > cap THEN Take(w, cap) ELSE w

LruStart == [op |-> "lru", last |-> "", key |-> NoName, ok |-> FALSE,
             ref |-> <<>>, ins |-> <<>>, pure |-> TRUE]

\* a caller invokes Cache.Load(key)
LruLoad ==
    /\ \E key \in CacheKeys : \E r \in {Load(cache, key)} :
          /\ cache' = r.cache
          /\ call' = [call EXCEPT !.last = "Load", !.key = key, !.ok = r.ok,
                                  !.ref = IF r.ok THEN RefUse(@, cache.cap, key) ELSE @,
                                  !.ins = IF r.ok THEN <<>> ELSE @,
                                  !.pure = @ /\ ~r.ok]
    /\ UNCHANGED <<gc, connVars, sniffVars, srvVars, caVars>>

\* a caller invokes Cache.LoadOrStore(key, value)
LruLoadOrStore ==
    /\ \E key \in CacheKeys : \E value \in CertsOf(key) :
       \E r \in {LoadOrStore(cache, key, value)} :
          LET pure == /\ call.pure
                      /\ ~r.loaded
                      /\ \A i \in 1..Len(call.ins) : call.ins[i] # key
          IN  /\ cache' = r.cache
              /\ call' = [call EXCEPT !.last = "LoadOrStore", !.key = key, !.ok = r.loaded,
                                      !.ref = RefUse(@, cache.cap, key),
                                      !.ins = IF pure THEN Append(@, key) ELSE <<>>,
                                      !.pure = pure]
    /\ UNCHANGED <<gc, connVars, sniffVars, srvVars, caVars>>

InitLru ==
    /\ \E cap \in 1..MaxCap : cache = NewCache(cap)
    /\ gc = [p \in GcIds |-> GcIdle]
    /\ call = LruStart

NextLru == LruLoad \/ LruLoadOrStore

(***************************************************************************)
(* The specifications: each subsystem runs with the others at rest.        *)
(***************************************************************************)
ConnAtRest ==
    /\ cachedConn = NewCachedConn(1)
    /\ netConn = [stream |-> <<>>, pos |-> 0, dead |-> FALSE]
    /\ replayed = <<>>

CacheAtRest ==
    /\ cache = NewCache(1)
    /\ gc = [p \in GcIds |-> GcIdle]

SniffAtRest == sniff = SniffIdle

CaAtRest == ca = CaIdle

NoCall == [op |-> "none"]
CallAtRest == call = NoCall

SrvAtRest == InitSrv

\* the callers of GetCertificate on a cache of any capacity
StartCache == InitCache /\ ConnAtRest /\ SniffAtRest /\ SrvAtRest /\ CaAtRest /\ CallAtRest
SpecCache == StartCache /\ [][NextCache]_vars

\* Load and LoadOrStore beside the reference LRU
StartLru == InitLru /\ ConnAtRest /\ SniffAtRest /\ SrvAtRest /\ CaAtRest
SpecLru == StartLru /\ [][NextLru]_vars

\* one CachedConn over one connection
StartConn == InitConn /\ CacheAtRest /\ SniffAtRest /\ SrvAtRest /\ CaAtRest /\ CallAtRest
SpecConn == StartConn /\ [][NextConn]_vars

\* one dispatch on the bytes after the CONNECT ack
StartSniff == InitSniff /\ CacheAtRest /\ ConnAtRest /\ SrvAtRest /\ CaAtRest /\ CallAtRest
SpecSniff == StartSniff /\ [][NextSniff]_vars

\* the server while it runs (no Shutdown), with handlers that may panic
NextPanic ==
    \/ \E i \in LasCallers :
          \/ LasCheck(i)
          \/ LasListen(i)
          \/ LasListenErr(i)
          \/ LasAccept(i)
          \/ LasAcceptErr(i)
    \/ \E h \in Conns :
          \/ HandlerStart(h)
          \/ HandlerReadErr(h)
          \/ HandlerRead(h)
          \/ HandlerPeekErr(h)
          \/ HandlerPeek(h)
          \/ HandlerSniffErr(h)
          \/ HandlerSniff(h)
          \/ CallMintOk(h)
          \/ CallMintErr(h)
          \/ CallStore(h)
          \/ HandlerCertDone(h)
          \/ HandlerTLSPeekErr(h)
          \/ HandlerTLSPeek(h)
          \/ HandlerTLSReadErr(h)
          \/ HandlerTLSRead(h)
          \/ HandlerRoundTripErr(h)
          \/ HandlerRoundTrip(h)
          \/ HandlerDialErr(h)
          \/ HandlerDial(h)
          \/ HandlerCopyUp(h)
          \/ HandlerCopyDown(h)
          \/ HandlerPanic(h)
          \/ HandlerUntrack(h)

\* the server, with the certificate cache ca.Setup created
InitServer ==
    /\ InitSrv
    /\ cache = NewCache(MaxCap)
    /\ gc = [p \in GcIds |-> GcIdle]
    /\ ConnAtRest
    /\ SniffAtRest
    /\ CaAtRest
    /\ CallAtRest

(***************************************************************************)
(* The ClientHello parser, byte by byte.  The record handed to             *)
(* parseHandshakeRecord is a slice of the pooled recording buffer: an index *)
(* s[i] needs i < len(s), a slice s[a:] needs a <= len(s), and a slice      *)
(* s[a:b] needs a <= b <= cap(s), where the capacity runs to the end of    *)
(* the buffer and the bytes behind the record are whatever the buffer      *)
(* holds.  mem is the buffer from the start of the record, n the record    *)
(* length; a slice is the pair of its offsets in mem.                      *)
(***************************************************************************)
MaxNames == 2
MaxRoom == 4
clientHelloPreamble == 38
extensionServerName == 0

Sl(lo, hi) == [lo |-> lo, hi |-> hi]
SLen(s) == s.hi - s.lo
U16At(mem, at) == mem[at + 1] * 256 + mem[at + 2]

Panicked == [kind |-> "panic", name |-> <<>>]
ParseErr == [kind |-> "err", name |-> <<>>]
ParsedName(nm) == [kind |-> "name", name |-> nm]
NextExtension == [kind |-> "next", name |-> <<>>]

\* the same loop with the test of line 142 left out: the first entry wins
parseServerNamesAny(mem, e) ==
    IF SLen(e) = 0 THEN NextExtension
    ELSE IF SLen(e) < 3 THEN Panicked
    ELSE IF e.lo + 3 + U16At(mem, e.lo + 1) > Len(mem) THEN Panicked
    ELSE ParsedName(SubSeq(mem, e.lo + 4, e.lo + 3 + U16At(mem, e.lo + 1)))

\* parseHandshakeRecord lines 139-146: the server_name_list entries
RECURSIVE parseServerNames(_, _)
parseServerNames(mem, e) ==
    IF SLen(e) = 0 THEN NextExtension
    ELSE IF SLen(e) < 3 THEN Panicked
    ELSE LET nameType == mem[e.lo + 1]
             nameLength == U16At(mem, e.lo + 1)
         IN  IF nameType = 0 /\ nameLength > 0
             THEN IF e.lo + 3 + nameLength > Len(mem) THEN Panicked
                  ELSE ParsedName(SubSeq(mem, e.lo + 4, e.lo + 3 + nameLength))
             ELSE IF 3 + nameLength > SLen(e) THEN Panicked
                  ELSE parseServerNames(mem, Sl(e.lo + 3 + nameLength, e.hi))

\* parseHandshakeRecord lines 131-149: the extensions
RECURSIVE parseExtensions(_, _)
parseExtensions(mem, d) ==
    IF SLen(d) = 0 THEN ParsedName(<<>>)
    ELSE IF SLen(d) < 4 THEN Panicked
    ELSE LET extType == U16At(mem, d.lo)
             extLength == U16At(mem, d.lo + 2)
         IN  IF d.lo + 4 + extLength > Len(mem) THEN Panicked
             ELSE LET extData == Sl(d.lo + 4, d.lo + 4 + extLength)
                      inner == IF extType # extensionServerName THEN NextExtension
                               ELSE IF SLen(extData) < 2 THEN Panicked
                               ELSE parseServerNames(mem, Sl(extData.lo + 2, extData.hi))
                  IN  IF inner.kind # "next" THEN inner
                      ELSE IF 4 + extLength > SLen(d) THEN Panicked
                      ELSE parseExtensions(mem, Sl(d.lo + 4 + extLength, d.hi))

\* parseHandshakeRecord lines 104-130: the message type, the preamble, the
\* session id, the cipher suites, the compression methods and the length of
\* the extensions block
parseClientHello(mem, n) ==
    IF n = 0 THEN Panicked
    ELSE IF mem[1] # messageTypeClientHello THEN ParseErr
    ELSE IF clientHelloPreamble > n THEN Panicked
    ELSE LET d1 == Sl(clientHelloPreamble, n)
         IN  IF SLen(d1) = 0 THEN Panicked
             ELSE LET sessionIdLength == mem[d1.lo + 1]
                  IN  IF 1 + sessionIdLength > SLen(d1) THEN Panicked
                      ELSE LET d2 == Sl(d1.lo + 1 + sessionIdLength, n)
                           IN  IF SLen(d2) < 2 THEN Panicked
                               ELSE LET cipherSuitesLength == U16At(mem, d2.lo)
                                    IN  IF 2 + cipherSuitesLength > SLen(d2) THEN Panicked
                                        ELSE LET d3 == Sl(d2.lo + 2 + cipherSuitesLength, n)
                                             IN  IF SLen(d3) = 0 THEN Panicked
                                                 ELSE LET compressionMethodsLength == mem[d3.lo + 1]
                                                      IN  IF 1 + compressionMethodsLength > SLen(d3) THEN Panicked
                                                          ELSE LET d4 == Sl(d3.lo + 1 + compressionMethodsLength, n)
                                                               IN  IF SLen(d4) = 0 THEN ParsedName(<<>>)
                                                                   ELSE IF SLen(d4) < 2 THEN Panicked
                                                                   ELSE IF SLen(d4) - 2 # U16At(mem, d4.lo) THEN ParseErr
                                                                   ELSE parseExtensions(mem, Sl(d4.lo + 2, n))

\* The ClientHellos handed in.  A well-formed one is built from its parts,
\* every length field agreeing with what follows it: a session id, one
\* cipher suite, one compression method, and no extensions block or a block
\* of at most one server_name extension (with up to MaxNames entries) among
\* other extensions.
U16(k) == <<k \div 256, k % 256>>
Zeros(k) == [i \in 1..k |-> 0]
RECURSIVE Flat(_)
Flat(qs) == IF qs = <<>> THEN <<>> ELSE Head(qs) \o Flat(Tail(qs))

NameEntries ==
    { [type |-> 0, name |-> <<97>>], [type |-> 0, name |-> <<98, 99>>],
      [type |-> 1, name |-> <<100>>], [type |-> 0, name |-> <<>>] }
NameLists == UNION {[1..k -> NameEntries] : k \in 0..MaxNames}
SniExt(l) == [type |-> extensionServerName, names |-> l]
OtherExt(t, k) == [type |-> t, names |-> <<>>, body |-> Zeros(k)]
ExtensionLists ==
    {<<>>, <<OtherExt(10, 1)>>, <<OtherExt(10, 1), OtherExt(11, 0)>>}
      \cup {<<SniExt(l)>> : l \in NameLists}
      \cup {<<OtherExt(10, 1), SniExt(l)>> : l \in NameLists}
      \cup {<<SniExt(l), OtherExt(11, 0)>> : l \in NameLists}

EncName(e) == <<e.type>> \o U16(Len(e.name)) \o e.name
EncNames(l) == Flat([i \in DOMAIN l |-> EncName(l[i])])
EncExt(x) ==
    IF x.type = extensionServerName
    THEN U16(x.type) \o U16(Len(EncNames(x.names)) + 2)
           \o U16(Len(EncNames(x.names))) \o EncNames(x.names)
    ELSE U16(x.type) \o U16(Len(x.body)) \o x.body
EncExts(xs) == Flat([i \in DOMAIN xs |-> EncExt(xs[i])])
EncHello(h) ==
    <<messageTypeClientHello>> \o Zeros(clientHelloPreamble - 1)
      \o <<Len(h.sid)>> \o h.sid
      \o U16(2) \o <<0, 47>>
      \o <<1, 0>>
      \o (IF h.block THEN U16(Len(EncExts(h.exts))) \o EncExts(h.exts) ELSE <<>>)

Hellos ==
    {[sid |-> sid, block |-> TRUE, exts |-> xs] :
        sid \in {<<>>, <<7>>}, xs \in ExtensionLists}
      \cup {[sid |-> sid, block |-> FALSE, exts |-> <<>>] : sid \in {<<>>, <<7>>}}

\* what the record names: the first entry of the server_name_list with
\* name_type 0 and a name that is not empty, or nothing
RECURSIVE FirstHostName(_)
FirstHostName(l) ==
    IF l = <<>> THEN <<>>
    ELSE IF Head(l).type = 0 /\ Head(l).name # <<>> THEN Head(l).name
    ELSE FirstHostName(Tail(l))
NamedBy(h) == FirstHostName(Flat([i \in DOMAIN h.exts |-> h.exts[i].names]))

\* Records that are not well formed: one cut short at any length, one with
\* a single byte behind the preamble replaced, and one of another message
\* type.
CutShort(q) == {Take(q, k) : k \in 1..(Len(q) - 1)}
OneByteOff(q) ==
    {[q EXCEPT ![i] = b] : i \in (clientHelloPreamble + 1)..Len(q), b \in {0, 1, 3, 255}}
      \ {q}
WellFormedRecords == {EncHello(h) : h \in Hellos}
BrokenRecords ==
    (UNION {CutShort(q) \cup OneByteOff(q) : q \in WellFormedRecords}
       \cup {<<2>>, <<2>> \o Zeros(clientHelloPreamble)})
      \ WellFormedRecords

\* what the pooled buffer holds behind the record
Rooms == {<<>>} \cup {[i \in 1..MaxRoom |-> b] : b \in {0, 97}}

\* handleTLS with the record already recorded by Prefetch: cc is the
\* CachedConn, rewinds counts the calls of Rewind; wellFormed and named say
\* how the record was built
HelloIdle(rec, room, wellFormed, named) ==
    [op |-> "hello", pc |-> "sniff", rec |-> rec, room |-> room,
     wellFormed |-> wellFormed, named |-> named,
     cc |-> [used |-> -1,
             buffer |-> [data |-> <<recordTypeHandshake, 3, 1>> \o U16(Len(rec)) \o rec,
                         cap |-> recordHeaderLen + Len(rec) + Len(room)]],
     res |-> NextExtension, rewinds |-> 0]

InitHello ==
    \E room \in Rooms :
        \/ \E h \in Hellos : call = HelloIdle(EncHello(h), room, TRUE, NamedBy(h))
        \/ \E rec \in BrokenRecords : call = HelloIdle(rec, room, FALSE, <<>>)

\* handleTLS lines 131-141: the parse, the one Rewind, and the error check;
\* a panic leaves the function before line 132
HelloSniff ==
    /\ call.op = "hello" /\ call.pc = "sniff"
    /\ LET res == parseClientHello(call.rec \o call.room, Len(call.rec))
       IN  call' = IF res.kind = "panic"
                   THEN [call EXCEPT !.pc = "panicked", !.res = res]
                   ELSE [call EXCEPT !.pc = IF res.kind = "err" THEN "handleTCP" ELSE "mint",
                                     !.res = res,
                                     !.cc = Rewind(@),
                                     !.rewinds = @ + 1]
    /\ UNCHANGED <<cacheVars, connVars, sniffVars, srvVars, caVars>>

\* handleTLS lines 142-147: ca.GetCertificate fails
HelloMintErr ==
    /\ call.op = "hello" /\ call.pc = "mint"
    /\ call' = [call EXCEPT !.pc = "handleTCP"]
    /\ UNCHANGED <<cacheVars, connVars, sniffVars, srvVars, caVars>>

\* handleTLS lines 142-151: the leaf is there, tls.Server takes cachedConn
HelloMintOk ==
    /\ call.op = "hello" /\ call.pc = "mint"
    /\ call' = [call EXCEPT !.pc = "tls.Server"]
    /\ UNCHANGED <<cacheVars, connVars, sniffVars, srvVars, caVars>>

NextHello == HelloSniff \/ HelloMintErr \/ HelloMintOk

\* one ClientHello record through handleTLS
StartHello == InitHello /\ CacheAtRest /\ ConnAtRest /\ SniffAtRest /\ SrvAtRest /\ CaAtRest
SpecHello == StartHello /\ [][NextHello]_vars

(***************************************************************************)
(* The cache variants with an explicit len counter (cert.SyncCache and the *)
(* ca.Cache that exposes Len and Cap).  List and index are handled as in   *)
(* Cache; len is kept beside them: pushFront increments it, the eviction   *)
(* test and back read it, remove leaves it alone.                          *)
(***************************************************************************)
MaxLen == 5

\* SyncCache.back
syncBack(c, len) == IF len = 0 THEN Nil ELSE c.prev[Root]

\* SyncCache.LoadOrStore: the cache and the counter after the call
syncLoadOrStore(c, len, key, value) ==
    IF Has(c, key)
    THEN [cache |-> moveToFront(c, c.idx[key]), len |-> len, loaded |-> TRUE]
    ELSE LET trim(pushed, len1) ==
                 IF len1 > c.cap /\ syncBack(pushed, len1) # Nil
                 THEN [cache |-> remove(pushed, syncBack(pushed, len1)),
                       len |-> len1, loaded |-> FALSE]
                 ELSE [cache |-> pushed, len |-> len1, loaded |-> FALSE]
         IN  trim(pushFront(c, NewElem(c, key), key, value), len + 1)

SyncStart == [op |-> "sync", last |-> "", len |-> 0]

\* SyncCache.Load
SyncLoad ==
    /\ call.op = "sync"
    /\ \E key \in CacheKeys :
          /\ cache' = Load(cache, key).cache
          /\ call' = [call EXCEPT !.last = "Load"]
    /\ UNCHANGED <<gc, connVars, sniffVars, srvVars, caVars>>

\* SyncCache.LoadOrStore
SyncLoadOrStore ==
    /\ call.op = "sync"
    /\ call.len < MaxLen
    /\ \E key \in CacheKeys : \E value \in CertsOf(key) :
       \E r \in {syncLoadOrStore(cache, call.len, key, value)} :
          /\ cache' = r.cache
          /\ call' = [call EXCEPT !.last = "LoadOrStore", !.len = r.len]
    /\ UNCHANGED <<gc, connVars, sniffVars, srvVars, caVars>>

\* NewSyncCache
InitSync ==
    /\ \E cap \in 1..MaxCap : cache = NewCache(cap)
    /\ gc = [p \in GcIds |-> GcIdle]
    /\ call = SyncStart

NextSync == SyncLoad \/ SyncLoadOrStore

\* one SyncCache and its callers, one call at a time under the mutex
StartSync == InitSync /\ ConnAtRest /\ SniffAtRest /\ SrvAtRest /\ CaAtRest
SpecSync == StartSync /\ [][NextSync]_vars

(***************************************************************************)
(* Two GetCertificate calls in a row on an empty cache: the first mints a  *)
(* leaf for the SANs of its server name and stores it under its key, the   *)
(* second is a hit when its key is the same and then returns that leaf.    *)
(***************************************************************************)
PairLabels == {"a", "b", "example", "com", "appspot", "internal", "aisai", "aichi", "jp"}
PairNames == UNION { [1..n -> PairLabels] : n \in 1..MaxLabels }

\* the names whose key can meet the key of name: name without its first
\* label, with another first label, and with one more label in front
Relatives(name) ==
    {name}
      \cup (IF Len(name) > 1 THEN {Tail(name)} ELSE {})
      \cup {<<l>> \o Tail(name) : l \in PairLabels}
      \cup (IF Len(name) < MaxLabels THEN {<<l>> \o name : l \in PairLabels} ELSE {})

\* GetCertificate lines 186-216 on a miss: the leaf is minted for dns
PairMint ==
    /\ call.op = "pair" /\ call.pc = "first"
    /\ call' = [call EXCEPT !.pc = "second",
                            !.key = SanOf(call.first).key,
                            !.leaf = SanOf(call.first).dns]
    /\ UNCHANGED <<cacheVars, connVars, sniffVars, srvVars, caVars>>

\* GetCertificate lines 186-203 for a second server name: a hit returns the
\* cached leaf
PairLookup ==
    /\ call.op = "pair" /\ call.pc = "second"
    /\ \E name \in Relatives(call.first) :
          call' = [call EXCEPT !.pc = "done", !.second = name,
                               !.hit = (SanOf(name).key = call.key)]
    /\ UNCHANGED <<cacheVars, connVars, sniffVars, srvVars, caVars>>

InitPair ==
    \E name \in PairNames :
        call = [op |-> "pair", pc |-> "first", first |-> name, second |-> <<>>,
                key |-> <<>>, leaf |-> <<>>, hit |-> FALSE]

NextPair == PairMint \/ PairLookup

\* two server names through GetCertificate
StartPair == InitPair /\ CacheAtRest /\ ConnAtRest /\ SniffAtRest /\ SrvAtRest /\ CaAtRest
SpecPair == StartPair /\ [][NextPair]_vars

(***************************************************************************)
(* pickCommonName over names as byte strings.  A name is built from the    *)
(* lengths of its labels: label i is a run of one letter, the labels are   *)
(* joined by dots.                                                         *)
(***************************************************************************)
commonNameLimit == 64
MaxNameLabels == 3
LabelLens == {1, 2, 31, 62, 63, 64, 65}
LabelLetters == <<"a", "b", "c", "d">>

RECURSIVE JoinLabels(_, _)
JoinLabels(lens, i) ==
    IF i > Len(lens) THEN <<>>
    ELSE (IF i > 1 THEN <<".">> ELSE <<>>)
           \o [j \in 1..lens[i] |-> LabelLetters[i]] \o JoinLabels(lens, i + 1)

DnsStrings ==
    {JoinLabels(lens, 1) : lens \in UNION {[1..n -> LabelLens] : n \in 1..MaxNameLabels}}
IpStrings == {<<"1", ".", "2", ".", "3", ".", "4">>, <<":", ":", "1">>}

\* the first DNS SAN as it is
pickCommonNameWhole(dns, ips) == IF Len(dns) = 0 THEN ips[1] ELSE dns[1]

\* ca.pickCommonName
pickCommonName(dns, ips) ==
    IF Len(dns) = 0 THEN ips[1]
    ELSE IF Len(dns[1]) <= commonNameLimit THEN dns[1]
    ELSE LET result == SubSeq(dns[1], Len(dns[1]) - commonNameLimit + 1, Len(dns[1]))
         IN  SubSeq(result, IndexByte(result, ".") + 2, Len(result))

\* generateLeaf line 166: the common name of the template
PickCommonName ==
    /\ call.op = "cn" /\ call.pc = "call"
    /\ call' = [call EXCEPT !.pc = "done", !.out = pickCommonName(call.dns, call.ips)]
    /\ UNCHANGED <<cacheVars, connVars, sniffVars, srvVars, caVars>>

\* GetCertificate lines 186-194: one IP and no DNS SAN, or DNS SANs only
InitCommonName ==
    \/ \E ip \in IpStrings :
          call = [op |-> "cn", pc |-> "call", dns |-> <<>>, ips |-> <<ip>>, out |-> <<>>]
    \/ \E name \in DnsStrings, more \in {<<>>, <<<<"x">>>>} :
          call = [op |-> "cn", pc |-> "call", dns |-> <<name>> \o more, ips |-> <<>>,
                  out |-> <<>>]

NextCommonName == PickCommonName

\* one call of pickCommonName
StartCommonName ==
    InitCommonName /\ CacheAtRest /\ ConnAtRest /\ SniffAtRest /\ SrvAtRest /\ CaAtRest
SpecCommonName == StartCommonName /\ [][NextCommonName]_vars

(***************************************************************************)
(* The poll intervals of Shutdown, in nanoseconds as time.Duration counts   *)
(* them.  rand.Intn(n) returns any of 0..n-1 and panics for n <= 0; the    *)
(* model draws the smallest, the largest and some values in between.       *)
(***************************************************************************)
MaxTicks == 14
Millisecond == 1000000
pollIntervalCap == 500

\* what rand.Intn(n) may return, for n > 0
IntnSamples(n) ==
    {0, 1, 2, n \div 4, n \div 3, n \div 2, (2 * n) \div 3, (3 * n) \div 4, n - 2, n - 1}
      \cap (0..(n - 1))

\* the closure without the cap of lines 418-420
nextPollIntervalUncapped(base, r) == [interval |-> base + r, base |-> base * 2]

\* the closure nextPollInterval, lines 415-422, with r the random number
nextPollInterval(base, r) ==
    [interval |-> base + r,
     base |-> IF base * 2 > pollIntervalCap * Millisecond
              THEN pollIntervalCap * Millisecond ELSE base * 2]

\* Shutdown line 414
PollStart ==
    [op |-> "poll", base |-> Millisecond, ticks |-> 0,
     of |-> 0, bound |-> 1, interval |-> 0]

\* Shutdown lines 424 and 434: the timer is armed with the next interval;
\* bound is the argument handed to rand.Intn, which panics when it is not
\* positive
PollArm ==
    /\ call.op = "poll"
    /\ call.ticks < MaxTicks
    /\ LET n == call.base \div 10
       IN  IF n <= 0
           THEN call' = [call EXCEPT !.op = "poll panicked", !.bound = n]
           ELSE \E r \in IntnSamples(n) :
                   LET nxt == nextPollInterval(call.base, r)
                   IN  call' = [call EXCEPT !.base = nxt.base, !.interval = nxt.interval,
                                            !.of = call.base, !.bound = n,
                                            !.ticks = @ + 1]
    /\ UNCHANGED <<cacheVars, connVars, sniffVars, srvVars, caVars>>

InitPoll == call = PollStart

NextPoll == PollArm

\* the polling loop of one Shutdown
StartPoll == InitPoll /\ CacheAtRest /\ ConnAtRest /\ SniffAtRest /\ SrvAtRest /\ CaAtRest
SpecPoll == StartPoll /\ [][NextPoll]_vars

(***************************************************************************)
(* The pooled objects of the connection wrappers.  Each serve goroutine    *)
(* wraps its connection in a BufioConn (a pooled bufio.Reader); handleTLS  *)
(* puts a CachedConn (a pooled recording buffer) around that, a tls.Conn   *)
(* around the CachedConn and a second BufioConn around the tls.Conn.       *)
(* Close of a wrapper returns its pooled object when it still has one,     *)
(* forgets it, and closes what it wraps.  sync.Pool.Get hands out any      *)
(* pooled object or none, and then a new one is made.                      *)
(***************************************************************************)
NumReaders == 4
NumBuffers == 2
NumServes == 2
ReaderIds == 1..NumReaders
BufferIds == 1..NumBuffers
Serves == 1..NumServes

\* the objects sync.Pool.Get or the allocation behind it can hand out
ReadersToGet(c) ==
    c.freeR \cup (IF c.madeR < NumReaders THEN {c.madeR + 1} ELSE {})
BuffersToGet(c) ==
    c.freeB \cup (IF c.madeB < NumBuffers THEN {c.madeB + 1} ELSE {})

\* newBufioReader and newBuffer: r leaves the pool or is made
newBufioReader(c, r) ==
    [c EXCEPT !.freeR = @ \ {r}, !.madeR = Max(@, r), !.putsR[r] = 0]
newBuffer(c, b) ==
    [c EXCEPT !.freeB = @ \ {b}, !.madeB = Max(@, b), !.putsB[b] = 0]

\* putBufioReader and putBuffer
putBufioReader(c, r) == [c EXCEPT !.freeR = @ \cup {r}, !.putsR[r] = @ + 1]
putBuffer(c, b) == [c EXCEPT !.freeB = @ \cup {b}, !.putsB[b] = @ + 1]

\* net.Conn.Close of the accepted connection
closeConn(c, h) == [c EXCEPT !.w[h].connCloses = @ + 1]

\* a BufioConn.Close that returns the reader on every call
closeOuterAlways(c, h) ==
    IF c.w[h].made = 0 THEN closeConn(c, h)
    ELSE closeConn(putBufioReader(c, c.w[h].made), h)

\* BufioConn.Close of the wrapper serve made
closeOuter(c, h) ==
    IF c.w[h].br # Nil
    THEN closeConn([putBufioReader(c, c.w[h].br) EXCEPT !.w[h].br = Nil], h)
    ELSE closeConn(c, h)

\* CachedConn.Close
closeCached(c, h) ==
    IF c.w[h].buffer # Nil
    THEN closeOuter([putBuffer(c, c.w[h].buffer) EXCEPT !.w[h].buffer = Nil], h)
    ELSE closeOuter(c, h)

\* tls.Conn.Close: the first call closes the wrapped connection, a later
\* one returns net.ErrClosed
closeTls(c, h) ==
    IF c.w[h].tlsClosed THEN c
    ELSE closeCached([c EXCEPT !.w[h].tlsClosed = TRUE], h)

\* BufioConn.Close of the wrapper handleTLS made around the tls.Conn
closeInner(c, h) ==
    IF c.w[h].tlsBr # Nil
    THEN closeTls([putBufioReader(c, c.w[h].tlsBr) EXCEPT !.w[h].tlsBr = Nil], h)
    ELSE closeTls(c, h)

closeOf(c, h, what) ==
    IF what = "bufioConn" THEN closeOuter(c, h)
    ELSE IF what = "cachedConn" THEN closeCached(c, h)
    ELSE IF what = "tlsConn" THEN closeTls(c, h)
    ELSE closeInner(c, h)

NoWrappers ==
    [pc |-> "accepted", br |-> Nil, made |-> 0, buffer |-> Nil, tlsBr |-> Nil,
     tlsClosed |-> FALSE, connCloses |-> 0, defers |-> <<>>]

PoolStart ==
    [op |-> "pool", freeR |-> {}, freeB |-> {}, madeR |-> 0, madeB |-> 0,
     putsR |-> [r \in ReaderIds |-> 0], putsB |-> [b \in BufferIds |-> 0],
     w |-> [h \in Serves |-> NoWrappers]]

\* serve lines 348-357: NewBufioConn and the deferred Close
PoolServe(h) ==
    /\ call.op = "pool" /\ call.w[h].pc = "accepted"
    /\ \E r \in ReadersToGet(call) :
          call' = [newBufioReader(call, r) EXCEPT
                      !.w[h].br = r, !.w[h].made = r,
                      !.w[h].defers = <<"bufioConn">>, !.w[h].pc = "ReadRequest"]
    /\ UNCHANGED <<cacheVars, connVars, sniffVars, srvVars, caVars>>

\* serve lines 359-384: http.ReadRequest reads through the reader and
\* fails, or the request goes to handleRequest, handleHTTP, handleTCP or
\* handleTLS
PoolReadRequest(h) ==
    /\ call.op = "pool" /\ call.w[h].pc = "ReadRequest"
    /\ \E to \in {"return", "handleRequest", "copy", "handleTLS"} :
          call' = [call EXCEPT !.w[h].pc = to]
    /\ UNCHANGED <<cacheVars, connVars, sniffVars, srvVars, caVars>>

\* handleRequest lines 33-47: the status body is built in a pooled buffer
\* that the deferred putBuffer returns
PoolStatus(h) ==
    /\ call.op = "pool" /\ call.w[h].pc = "handleRequest"
    /\ \/ call' = [call EXCEPT !.w[h].pc = "return"]
       \/ \E b \in BuffersToGet(call) :
             call' = [putBuffer(newBuffer(call, b), b) EXCEPT !.w[h].pc = "return"]
    /\ UNCHANGED <<cacheVars, connVars, sniffVars, srvVars, caVars>>

\* handleTLS lines 128-147: NewCachedConn, its deferred Close, the sniff;
\* a panic of the parser and every fallback to handleTCP(cachedConn)
PoolHandleTLS(h) ==
    /\ call.op = "pool" /\ call.w[h].pc = "handleTLS"
    /\ \E b \in BuffersToGet(call), to \in {"return", "copy", "tls.Server"} :
          call' = [newBuffer(call, b) EXCEPT
                      !.w[h].buffer = b,
                      !.w[h].defers = <<"cachedConn">> \o @,
                      !.w[h].pc = to]
    /\ UNCHANGED <<cacheVars, connVars, sniffVars, srvVars, caVars>>

\* handleTLS lines 148-156: tls.Server, NewBufioConn around it, and their
\* deferred Close calls
PoolTerminate(h) ==
    /\ call.op = "pool" /\ call.w[h].pc = "tls.Server"
    /\ \E r \in ReadersToGet(call) :
          call' = [newBufioReader(call, r) EXCEPT
                      !.w[h].tlsBr = r,
                      !.w[h].defers = <<"tlsBufioConn", "tlsConn">> \o @,
                      !.w[h].pc = "copy"]
    /\ UNCHANGED <<cacheVars, connVars, sniffVars, srvVars, caVars>>

\* handleTCP and handleHTTP: the copies run through the wrappers and are
\* over when the handler returns (wg.Wait)
PoolCopy(h) ==
    /\ call.op = "pool" /\ call.w[h].pc = "copy"
    /\ call' = [call EXCEPT !.w[h].pc = "return"]
    /\ UNCHANGED <<cacheVars, connVars, sniffVars, srvVars, caVars>>

\* the deferred Close calls, last registered first
PoolDefer(h) ==
    /\ call.op = "pool" /\ call.w[h].pc = "return"
    /\ call' = IF call.w[h].defers = <<>>
               THEN [call EXCEPT !.w[h].pc = "done"]
               ELSE [closeOf(call, h, Head(call.w[h].defers)) EXCEPT
                        !.w[h].defers = Tail(call.w[h].defers)]
    /\ UNCHANGED <<cacheVars, connVars, sniffVars, srvVars, caVars>>

InitPool == call = PoolStart

NextPool ==
    \E h \in Serves :
        \/ PoolServe(h)
        \/ PoolReadRequest(h)
        \/ PoolStatus(h)
        \/ PoolHandleTLS(h)
        \/ PoolTerminate(h)
        \/ PoolCopy(h)
        \/ PoolDefer(h)

\* the serve goroutines and the two pools
StartPool == InitPool /\ CacheAtRest /\ ConnAtRest /\ SniffAtRest /\ SrvAtRest /\ CaAtRest
SpecPool == StartPool /\ [][NextPool]_vars

(***************************************************************************)
(* httpProxy.Dial: a connection to the relay, the CONNECT request written  *)
(* through a BufioConn, the response read through its pooled reader.       *)
(***************************************************************************)
NumDials == 3
Dials == 1..NumDials
StatusOK == 200
RelayStatuses == {StatusOK, 204, 407, 502, 503}

DialIdle == [pc |-> "Dial", conn |-> "none", br |-> "none", ret |-> "none", status |-> 0]

\* Dial lines 45-52: the connection to the relay cannot be opened
DialRelayErr(d) ==
    /\ call.op = "dial" /\ call.d[d].pc = "Dial"
    /\ call' = [call EXCEPT !.d[d].pc = "returned", !.d[d].ret = "err"]
    /\ UNCHANGED <<cacheVars, connVars, sniffVars, srvVars, caVars>>

\* Dial lines 45-55: the connection is open, NewBufioConn takes a pooled
\* reader, the request is written
DialRelay(d) ==
    /\ call.op = "dial" /\ call.d[d].pc = "Dial"
    /\ call' = [call EXCEPT !.d[d].pc = "ReadResponse", !.d[d].conn = "open",
                            !.d[d].br = "held"]
    /\ UNCHANGED <<cacheVars, connVars, sniffVars, srvVars, caVars>>

\* Dial lines 57-59: http.ReadResponse fails
DialReadErr(d) ==
    /\ call.op = "dial" /\ call.d[d].pc = "ReadResponse"
    /\ call' = [call EXCEPT !.d[d].pc = "returned", !.d[d].ret = "err"]
    /\ UNCHANGED <<cacheVars, connVars, sniffVars, srvVars, caVars>>

\* Dial lines 57-63: the relay has answered
DialResponse(d) ==
    /\ call.op = "dial" /\ call.d[d].pc = "ReadResponse"
    /\ \E status \in RelayStatuses :
          call' = [call EXCEPT !.d[d].pc = "returned", !.d[d].status = status,
                               !.d[d].ret = IF status # StatusOK THEN "err" ELSE "conn"]
    /\ UNCHANGED <<cacheVars, connVars, sniffVars, srvVars, caVars>>

InitDial == call = [op |-> "dial", d |-> [d \in Dials |-> DialIdle]]

NextDial ==
    \E d \in Dials :
        \/ DialRelayErr(d)
        \/ DialRelay(d)
        \/ DialReadErr(d)
        \/ DialResponse(d)

\* the Dial calls of the handlers, each on its own
StartDial == InitDial /\ CacheAtRest /\ ConnAtRest /\ SniffAtRest /\ SrvAtRest /\ CaAtRest
SpecDial == StartDial /\ [][NextDial]_vars

\* one key derivation
StartSan == InitSan /\ CacheAtRest /\ ConnAtRest /\ SniffAtRest /\ SrvAtRest /\ CaAtRest
SpecSan == StartSan /\ [][NextSan]_vars

\* process startup up to the creation of the server
StartCA == InitCA /\ CacheAtRest /\ ConnAtRest /\ SniffAtRest /\ SrvAtRest /\ CallAtRest
SpecCA == StartCA /\ [][NextCA]_vars

SpecSrv == InitServer /\ [][NextSrv]_vars

\* one CONNECT from the acknowledgement to the end of the tunnel
StartTunnel == InitTunnel /\ CacheAtRest /\ SniffAtRest /\ SrvAtRest /\ CaAtRest
SpecTunnel == StartTunnel /\ [][NextTunnel]_vars

\* concurrent ListenAndServe calls and one Shutdown
StartListen ==
    /\ InitListen
    /\ CacheAtRest /\ ConnAtRest /\ SniffAtRest /\ CaAtRest /\ CallAtRest
SpecListen == StartListen /\ [][NextListen]_vars

SpecPanic == InitServer /\ [][NextPanic]_vars

\* Goroutines that can run do run: the accept loop sees the closed listener,
\* Shutdown's own steps are taken, and a select whose ctx.Done case is ready
\* again and again takes it (the runtime picks among ready cases at random).
\* Nothing is assumed of clients, upstreams or handlers.
FairSrv ==
    /\ SpecSrv
    /\ \A i \in LasCallers : WF_vars(LasAcceptClosed(i))
    /\ WF_vars(SdClose)
    /\ WF_vars(SdWait)
    /\ WF_vars(SdPoll)
    /\ WF_vars(SdTimer)
    /\ SF_vars(SdCtxDone)

(***************************************************************************)
(* C1: between operations the cache never holds fewer than 0 or more than  *)
(* cap entries (Status length, the size of the index).                     *)
(***************************************************************************)
C1_CacheSizeBounded ==
    /\ Status(cache).length >= 0
    /\ Status(cache).length <= Status(cache).capacity

\* a full cache that has just evicted: a call stored a new key at capacity
C1_Witness ==
    /\ IdxLen(cache) = cache.cap
    /\ \E p \in Procs : /\ gc[p].pc = "ret"
                        /\ gc[p].minted
                        /\ Has(cache, gc[p].key)
                        /\ cache.next[Root] = cache.idx[gc[p].key]
                        /\ gc[p].victim # {}

(***************************************************************************)
(* C7: two GetCertificate calls for the same cache key that both missed    *)
(* and both minted while overlapping return the same certificate, the one  *)
(* the cache holds for the key.                                            *)
(***************************************************************************)
C7_RacingCallsReturnWinner ==
    \A p, q \in Procs :
        ( /\ p # q
          /\ gc[p].pc = "ret" /\ gc[q].pc = "ret"
          /\ gc[p].minted /\ gc[q].minted
          /\ gc[p].key = gc[q].key
          /\ q \in gc[p].raced )
        => /\ gc[p].ret = gc[q].ret
           /\ Has(cache, gc[p].key) => cache.cert[cache.idx[gc[p].key]] = gc[p].ret

(***************************************************************************)
(* C2: once Rewind has been called, the bytes returned by Read so far,     *)
(* followed by the recorded bytes not yet replayed, are exactly the bytes  *)
(* the underlying connection has delivered since its first byte: nothing   *)
(* is lost, duplicated or reordered, whatever Prefetch and Read calls were *)
(* made while recording.                                                   *)
(***************************************************************************)
C2_ReplayIsStream ==
    cachedConn.used >= 0 =>
        replayed \o Drop(cachedConn.buffer.data, cachedConn.used) = Delivered(netConn)

\* recorded by both Prefetch and Read, rewound, replayed in full and then
\* read straight through
C2_Witness ==
    /\ cachedConn.used >= 2
    /\ cachedConn.used = Len(cachedConn.buffer.data)
    /\ Len(replayed) > cachedConn.used
    /\ replayed = netConn.stream
    /\ replayed[1] # replayed[2]

(***************************************************************************)
(* C4: after the CONNECT ack serve takes exactly one route on the 8 peeked *)
(* bytes: a peek error goes to the TCP tunnel with secure=false, a TLS     *)
(* ClientHello prefix to TLS interception, an HTTP method prefix to        *)
(* HTTP-in-CONNECT forwarding, anything else to the TCP tunnel with        *)
(* secure=false; no prefix is both a TLS prefix and an HTTP method prefix, *)
(* so testing the two in the other order gives the same route.             *)
(***************************************************************************)
C4_RouteByPrefix ==
    sniff.pc = "routed" =>
        /\ sniff.err => sniff.route = [to |-> "handleTCP", secure |-> FALSE]
        /\ ~sniff.err =>
            /\ ~(sniffTLSHandshakePrefix(sniff.data) /\ sniffHTTPMethodPrefix(sniff.data))
            /\ sniffTLSHandshakePrefix(sniff.data) => sniff.route.to = "handleTLS"
            /\ sniffHTTPMethodPrefix(sniff.data) => sniff.route.to = "handleHTTP"
            /\ (~sniffTLSHandshakePrefix(sniff.data) /\ ~sniffHTTPMethodPrefix(sniff.data))
                  => sniff.route = [to |-> "handleTCP", secure |-> FALSE]
            /\ sniff.route = RouteSwapped(FALSE, sniff.data)

\* a TLS 1.3 ClientHello prefix was routed to TLS interception
C4_Witness ==
    /\ sniff.pc = "routed" /\ ~sniff.err
    /\ Take(sniff.data, 3) = <<22, 3, 4>>
    /\ sniff.route.to = "handleTLS"

(***************************************************************************)
(* C3: a connection whose first request is a CONNECT with a non-empty URL  *)
(* host has been sent the "Connection established" response exactly once   *)
(* from the moment the request is classified until the handler exits, also *)
(* when the request read inside TLS is itself a CONNECT; a connection      *)
(* whose first request is not a CONNECT, or is a CONNECT with an empty URL *)
(* host (answered locally), has been sent it zero times.                   *)
(***************************************************************************)
C3_OneAckPerConnect ==
    \A h \in Conns :
        hs[h].acks = IF /\ hs[h].req # 0
                        /\ Requests[hs[h].req].method = "CONNECT"
                        /\ Requests[hs[h].req].host # ""
                     THEN 1 ELSE 0

\* after a CONNECT and TLS interception a handler forwards an inner request
\* that is itself a CONNECT, with one ack written
C3_Witness ==
    \E h \in Conns :
        /\ hs[h].pc = "roundtrip"
        /\ hs[h].req # 0
        /\ Requests[hs[h].req].method = "CONNECT"
        /\ hs[h].tls
        /\ hs[h].inner = <<67, 79, 78, 78, 69, 67, 84>>
        /\ hs[h].fwd.from = "inner"
        /\ hs[h].acks = 1

\* C3 as stated: every first request with method CONNECT gets exactly one
\* ack by the time the handler has exited, every other first request none
C3_AsStated ==
    \A h \in Conns :
        (hs[h].pc = "exited" /\ hs[h].req # 0) =>
            hs[h].acks = IF Requests[hs[h].req].method = "CONNECT" THEN 1 ELSE 0

(***************************************************************************)
(* C5: when the bytes peeked after the CONNECT ack are an HTTP method      *)
(* prefix, the request handed to the upstream round trip is the inner      *)
(* request read from the tunnel, with URL scheme http, and not the outer   *)
(* CONNECT request.                                                        *)
(***************************************************************************)
C5_InnerRequestForwarded ==
    \A h \in Conns :
        (hs[h].route = "handleHTTP" /\ hs[h].fwd.from # "none") =>
            /\ hs[h].fwd.from = "inner"
            /\ hs[h].fwd.scheme = "http"

(***************************************************************************)
(* C9: when Shutdown is called while handlers wait for the first bytes of  *)
(* idle CONNECT tunnels, it returns nil (not the context's error) and the  *)
(* client connection of every one of those handlers has been closed when   *)
(* it returns.                                                             *)
(***************************************************************************)
C9_IdleTunnelsClosedOnShutdown ==
    (sd.pc = "returned" /\ sd.idle # {}) =>
        /\ sd.err = "nil"
        /\ \A h \in sd.idle : hs[h].closed

(***************************************************************************)
(* C10: when Shutdown returns because it observed the tracked set empty,   *)
(* no accepted connection's handler is still running or yet to run.        *)
(***************************************************************************)
C10_EmptyTrackedMeansNoHandler ==
    (sd.pc = "returned" /\ sd.err = "nil") =>
        \A h \in Conns : hs[h].pc \in {"none", "exited"}

(***************************************************************************)
(* C8: on a server that has a listener, once Shutdown has been called and  *)
(* its context is done, Shutdown eventually returns, whatever the tracked  *)
(* connections' handlers are blocked on.                                   *)
(***************************************************************************)
C8_ShutdownReturns ==
    (/\ srv.listener # 0
     /\ sd.pc \in {"close", "wait", "poll", "select"}
     /\ sd.ctxDone)
        ~> (sd.pc = "returned")

\* Shutdown has returned the context's error while connections were tracked
\* and a handler was still blocked on its idle client
C8_Witness ==
    /\ sd.pc = "returned"
    /\ sd.err = "ctx"
    /\ srv.tracked # {}
    /\ \E h \in Conns : hs[h].pc = "peek" /\ hs[h].cancelled

(***************************************************************************)
(* C6: main goes on to create the server only if loading the CA file       *)
(* succeeded or failed with file-not-found (and then a new root was        *)
(* generated and persisted); after any other load error (a missing         *)
(* CERTIFICATE or PRIVATE KEY block, a key that does not match, an expired *)
(* certificate, a parse error) initialisation fails.                       *)
(***************************************************************************)
C6_LoadErrorsAreFatal ==
    ca.pc \in {"setup done", "server created"} =>
        \/ ca.loadErr = "nil"
        \/ ca.loadErr = "ErrNotExist" /\ ca.generated /\ ca.saved

(***************************************************************************)
(* C11: whenever a connection leaves the tracked set, by whatever path its *)
(* handler exits and with or without a Shutdown in progress, its cancel    *)
(* function has been invoked by then.                                      *)
(***************************************************************************)
C11_CancelOnRemoval ==
    [][\A h \in Conns :
          (h \in srv.tracked /\ h \notin srv'.tracked) => hs[h].cancelled]_vars

C18_PrefetchErrors ==
    [][( /\ call'.op = "Prefetch"
         /\ \/ cachedConn.used >= 0
            \/ Len(cachedConn.buffer.data) + call'.n > cachedConn.buffer.cap )
       => /\ call'.err
          /\ call'.got = 0
          /\ netConn' = netConn
          /\ cachedConn'.buffer = cachedConn.buffer]_vars

\* a Prefetch on a recording connection that holds bytes already has failed
\* for want of capacity while the connection had bytes to deliver
C18_Witness ==
    /\ call.op = "Prefetch" /\ call.err /\ call.got = 0
    /\ cachedConn.used = -1
    /\ Len(cachedConn.buffer.data) > 0
    /\ Len(cachedConn.buffer.data) + call.n > cachedConn.buffer.cap
    /\ Len(Pending(netConn)) > 0 /\ ~netConn.dead

(***************************************************************************)
(* C19: a Rewind called on a CachedConn that is already replaying is       *)
(* rejected: the call reports a failure to its caller.                     *)
(***************************************************************************)
C19_SecondRewindRejected ==
    [][(call'.op = "Rewind" /\ cachedConn.used >= 0) => call'.err]_vars

(***************************************************************************)
(* C14: the SANs and the cache key derived for a server name are those of  *)
(* the table: with d the dots of the name and s the dots of its public     *)
(* suffix, an IP literal gives the literal as key with an IP-only SAN;     *)
(* d = 0 gives [name]; an ICANN suffix with d = s gives [name]; d - s = 1  *)
(* gives ["*."+name, name]; d - s = 2 gives ["*."+base, base] with base    *)
(* the name after its first dot; a non-ICANN suffix with d = 1 or d = s    *)
(* gives ["*."+name, name]; anything else gives ["*."+tail]; the key is    *)
(* the first SAN, and deriving it again gives the same key.                *)
(***************************************************************************)
SanTable(name) ==
    LET d  == Len(name) - 1
        ps == PublicSuffix(name)
        sdots == Len(ps.suffix) - 1
    IN  IF ParseIP(name) THEN [dns |-> <<>>, ips |-> <<name>>, key |-> name]
        ELSE LET dns == IF d = 0 THEN <<name>>
                        ELSE IF ps.icann /\ d = sdots THEN <<name>>
                        ELSE IF d - sdots = 1 THEN << <<"*">> \o name, name >>
                        ELSE IF d - sdots = 2 THEN << <<"*">> \o Tail(name), Tail(name) >>
                        ELSE IF ~ps.icann /\ (d = 1 \/ d = sdots)
                             THEN << <<"*">> \o name, name >>
                        ELSE << <<"*">> \o Tail(name) >>
             IN  [dns |-> dns, ips |-> <<>>, key |-> dns[1]]

C14_SanTable ==
    call.op = "derived" =>
        /\ call.san = SanTable(call.name)
        /\ call.again = call.san.key

C16_ClosedListenerIsServerClosed ==
    [][ \A i \in DOMAIN las :
          ( /\ las[i].pc = "accept"
            /\ las'[i].pc = "returned"
            /\ srv.listener # 0
            /\ srv.bound[srv.listener] = "closed" )
          => (srv.shutdown /\ las'[i].ret = "ErrServerClosed")
      ]_vars

\* the accept loop has ended on the listener Shutdown closed
C16_Witness ==
    \E i \in DOMAIN las :
        /\ las[i].pc = "returned"
        /\ las[i].ret = "ErrServerClosed"
        /\ srv.bound[i] = "closed"
        /\ sd.pc \in {"wait", "poll", "select", "returned"}

(***************************************************************************)
(* C15: ListenAndServe called after Shutdown returns ErrServerClosed       *)
(* without binding, ListenAndServe on a listening server returns the       *)
(* already-listening error, and under any interleaving of the calls the    *)
(* Server never has more than one bound listener.                          *)
(***************************************************************************)
BoundListeners == {i \in DOMAIN srv.bound : srv.bound[i] = "open"}

C15_OneBoundListener == Cardinality(BoundListeners) <= 1

(***************************************************************************)
(* C20: in every TCP-tunnel outcome of a CONNECT (unknown prefix, peek     *)
(* error, SNI sniff failure, leaf-mint failure) the upstream receives the  *)
(* bytes the client sent after the request head exactly once and in order: *)
(* what it has received, then what the CachedConn has still to replay,     *)
(* then what the bufio.Reader holds, is what was read from the client, and *)
(* when the copy has ended nothing is held back.                           *)
(***************************************************************************)
ToReplay ==
    IF call.via = "cachedConn" /\ cachedConn.used >= 0
    THEN Drop(cachedConn.buffer.data, cachedConn.used)
    ELSE <<>>

InReader == SubSeq(netConn.stream, netConn.pos + 1, netConn.pos + netConn.br)

C20_TunnelDeliversEveryByte ==
    (call.op = "tunnel" /\ call.pc \in {"copy", "done"}) =>
        /\ replayed \o ToReplay \o InReader = Take(netConn.stream, netConn.pos + netConn.br)
        /\ call.pc = "done" => (ToReplay = <<>> /\ InReader = <<>>)

\* a tunnel after a failed leaf mint has delivered the ClientHello and more
C20_Witness ==
    /\ call.op = "tunnel"
    /\ call.pc = "done"
    /\ call.outcome = "mint failure"
    /\ Len(replayed) > PeekLen
    /\ replayed = netConn.stream

(***************************************************************************)
(* C21: when GetCertificate fails for a connection, that connection is not *)
(* TLS-terminated but handed to handleTCP with secure = false; the failing *)
(* call leaves the cache as it was, and no other connection's handler is   *)
(* touched by it.                                                          *)
(***************************************************************************)
C21_LeafFailureFallsBack ==
    [][ \A h \in Conns :
          /\ (gc[h].pc = "mint" /\ gc'[h].err)
                => (cache' = cache /\ \A g \in Conns \ {h} : hs'[g] = hs[g])
          /\ (hs[h].pc = "cert" /\ gc[h].err /\ hs'[h].pc # "cert")
                => /\ hs'[h].pc = "dial"
                   /\ ~hs'[h].secure
                   /\ ~hs'[h].tls
                   /\ cache' = cache
                   /\ \A g \in Conns \ {h} : hs'[g] = hs[g]
      ]_vars

\* a leaf mint has failed for one connection while another one is served
\* through the TLS server
C21_Witness ==
    \E h \in Conns :
        /\ hs[h].pc = "cert"
        /\ gc[h].pc = "ret"
        /\ gc[h].err
        /\ \E g \in Conns \ {h} : hs[g].tls

(***************************************************************************)
(* C22: when the SNI sniffer rejects the bytes after the CONNECT ack as an *)
(* invalid TLS handshake record (record type, record length, message       *)
(* type), the handler closes the client connection and never dials the     *)
(* upstream.                                                               *)
(***************************************************************************)
C22_InvalidRecordNeverDials ==
    (call.op = "tunnel" /\ call.outcome = "invalid record")
        => call.pc \notin {"copy", "done", "closed"}

(***************************************************************************)
(* C23: serve classifies the first request in this order.  An empty URL    *)
(* host is answered locally, 200 for GET /status and 400 otherwise, and is *)
(* never acked, forwarded or tunnelled whatever its method; otherwise a    *)
(* CONNECT is acked and takes the CONNECT path; otherwise the request is   *)
(* forwarded as plain HTTP, without ack and without local answer.  One     *)
(* route per connection.                                                   *)
(***************************************************************************)
C23_ClassificationOrder ==
    \A h \in Conns :
        hs[h].req # 0 =>
            LET q == Requests[hs[h].req]
                r == hs[h]
            IN  /\ q.host = "" =>
                      /\ r.pc \in {"untrack", "exited"}
                      /\ r.acks = 0 /\ r.fwd = NoFwd /\ r.up = "none" /\ r.route = ""
                      /\ ~r.tls
                      /\ r.reply = IF q.method = "GET" /\ q.path = "/status"
                                   THEN "200 OK" ELSE "400 Bad Request"
                /\ (q.host # "" /\ q.method = "CONNECT") =>
                      /\ r.acks = 1
                      /\ r.reply = ""
                /\ (q.host # "" /\ q.method # "CONNECT") =>
                      /\ r.pc \in {"roundtrip", "tunnel", "untrack", "exited"}
                      /\ r.acks = 0 /\ r.reply = "" /\ r.route = "" /\ ~r.tls
                      /\ r.pc \in {"roundtrip", "tunnel"}
                            => r.fwd = [from |-> "first", scheme |-> q.scheme]

\* one connection sent CONNECT with an empty host and got the 400, another
\* one sent CONNECT with a host and got the ack
C23_Witness ==
    \E h, g \in Conns :
        /\ hs[h].req # 0 /\ hs[g].req # 0
        /\ Requests[hs[h].req].method = "CONNECT" /\ Requests[hs[h].req].host = ""
        /\ hs[h].reply = "400 Bad Request"
        /\ Requests[hs[g].req].method = "CONNECT" /\ Requests[hs[g].req].host # ""
        /\ hs[g].acks = 1

(***************************************************************************)
(* C24: loadFrom fails when the PEM file has no CERTIFICATE block, no      *)
(* PRIVATE KEY block, a key that does not match the certificate, or an     *)
(* expired certificate; it returns nil only when the first certificate and *)
(* the first private key of the file match and the certificate is not      *)
(* expired, whichever of the two comes first.                              *)
(***************************************************************************)
BlocksOfType(blocks, type) == {i \in 1..Len(blocks) : blocks[i].type = type}

FirstPairGood(blocks) ==
    LET cers == BlocksOfType(blocks, "CERTIFICATE")
        keys == BlocksOfType(blocks, "PRIVATE KEY")
    IN  /\ cers # {} /\ keys # {}
        /\ LET c == blocks[SetMin(cers)]
               k == blocks[SetMin(keys)]
           IN  c.ok /\ k.ok /\ c.alg = k.alg /\ c.id = k.id /\ ~c.expired

\* the file Setup read is still the one loadFrom saw
Loaded == ca.pc # "start" /\ ~ca.saved /\ ca.file.err = "nil"

C24_LoadFromVerifies ==
    Loaded =>
        /\ ca.loadErr = "nil" => FirstPairGood(ca.file.blocks)
        /\ BlocksOfType(ca.file.blocks, "CERTIFICATE") = {} => ca.loadErr # "nil"
        /\ BlocksOfType(ca.file.blocks, "PRIVATE KEY") = {} => ca.loadErr # "nil"
        /\ ca.loadErr = "nil" => (ca.caCer.id = ca.caKey.id /\ ~ca.caCer.expired)

\* a file with the key first, its certificate second and an expired
\* certificate third has been loaded without error
C24_Witness ==
    /\ Loaded
    /\ ca.loadErr = "nil"
    /\ Len(ca.file.blocks) = 3
    /\ ca.file.blocks[1].type = "PRIVATE KEY"
    /\ ca.file.blocks[2].type = "CERTIFICATE"
    /\ ca.file.blocks[3].type = "CERTIFICATE" /\ ca.file.blocks[3].expired

(***************************************************************************)
(* C25: the upstream side of a handleTCP tunnel is wrapped in TLS exactly  *)
(* when the client side of that connection is served through the           *)
(* intercepting TLS server: the fallbacks before TLS termination use       *)
(* secure = false, the fallbacks after it secure = true.                   *)
(***************************************************************************)
InHandleTCP(r) == r.pc \in {"dial", "tunnel"} /\ r.fwd = NoFwd

C25_SecureIffTerminated ==
    \A h \in Conns : InHandleTCP(hs[h]) => (hs[h].secure <=> hs[h].tls)

\* one tunnel behind the TLS server with a TLS upstream, and one tunnel
\* that fell back inside handleTLS before termination with a plain upstream
C25_Witness ==
    \E h, g \in Conns :
        /\ hs[h].pc = "tunnel" /\ hs[h].fwd = NoFwd /\ hs[h].tls /\ hs[h].secure
        /\ hs[g].pc = "tunnel" /\ hs[g].fwd = NoFwd /\ hs[g].route = "handleTLS"
        /\ ~hs[g].tls /\ ~hs[g].secure

(***************************************************************************)
(* C26: beside a reference LRU in which Load hits and LoadOrStore hits     *)
(* count as a use, the cache holds the same keys after every operation, in *)
(* the same order of recency: an insert into a full cache evicts the       *)
(* least-recently-used key and never the key just inserted, and after      *)
(* cap + 1 distinct inserts without a hit the first inserted key is gone   *)
(* and the cap others are there (129 inserts into the cache of 128).       *)
(***************************************************************************)
RECURSIVE Walk(_, _, _)
Walk(c, n, fuel) ==
    IF n = Root \/ n = Nil \/ fuel = 0 THEN <<>>
    ELSE <<n>> \o Walk(c, c.next[n], fuel - 1)

\* the elems linked from root.next on
ListNodes(c) == Walk(c, c.next[Root], Cardinality(Nodes) + 1)

\* their names, most recently used first
ListKeys(c) == [i \in 1..Len(ListNodes(c)) |-> c.name[ListNodes(c)[i]]]

C26_RefinesLru ==
    call.op = "lru" =>
        /\ DOMAIN cache.idx = {call.ref[i] : i \in 1..Len(call.ref)}
        /\ ListKeys(cache) = call.ref
        /\ (call.last = "LoadOrStore" /\ ~call.ok)
              => (Has(cache, call.key) /\ cache.name[cache.next[Root]] = call.key)
        /\ (call.pure /\ Len(call.ins) = cache.cap + 1)
              => /\ ~Has(cache, call.ins[1])
                 /\ \A i \in 2..Len(call.ins) : Has(cache, call.ins[i])

\* cap + 1 distinct inserts without a hit into a cache of more than one
\* entry: the first key has been evicted
C26_Witness ==
    /\ call.op = "lru"
    /\ cache.cap > 1
    /\ call.pure
    /\ Len(call.ins) = cache.cap + 1
    /\ ~Has(cache, call.ins[1])

(***************************************************************************)
(* C27: in handleTCP, once one copy direction has ended (the client or the *)
(* upstream ended its side), the handler eventually returns and both       *)
(* connections are closed, even if the other side stays open and silent.   *)
(***************************************************************************)
C27_TunnelEndsWithOneSide ==
    \A h \in Conns :
        (InHandleTCP(hs[h]) /\ hs[h].pc = "tunnel" /\ (hs[h].c2u \/ hs[h].u2c))
            ~> (hs[h].closed /\ hs[h].up = "closed")

(***************************************************************************)
(* C28: for every handshake record of length 1..16384 handed to            *)
(* parseHandshakeRecord, records shorter than the 38-byte preamble and     *)
(* records whose length fields point past the end included, the function   *)
(* returns a server name or an error: it never indexes out of range.       *)
(***************************************************************************)
C28_ParseNeverPanics ==
    (call.op = "hello" /\ call.pc # "sniff") => call.res.kind \in {"name", "err"}

(***************************************************************************)
(* C29: for a well-formed ClientHello the SNI extraction returns the first *)
(* server_name_list entry with name_type 0 and a length that is not zero,  *)
(* and the empty name without an error when there is no extensions block   *)
(* or no such entry; the extraction is followed by exactly one Rewind      *)
(* before the connection goes to the TLS server or the TCP tunnel.         *)
(***************************************************************************)
C29_FirstHostNameThenOneRewind ==
    call.op = "hello" =>
        /\ (call.wellFormed /\ call.pc # "sniff")
              => call.res = ParsedName(call.named)
        /\ call.pc \in {"mint", "handleTCP", "tls.Server"}
              => (call.rewinds = 1 /\ call.cc.used = 0)

\* a hello whose first entry is of another name type and whose second entry
\* is the host name returned, on its way into the TLS server
C29_Witness ==
    /\ call.op = "hello" /\ call.pc = "tls.Server" /\ call.wellFormed
    /\ call.rec = EncHello([sid |-> <<7>>, block |-> TRUE,
                            exts |-> <<OtherExt(10, 1),
                                       SniExt(<<[type |-> 1, name |-> <<100>>],
                                                [type |-> 0, name |-> <<98, 99>>]>>)>>])
    /\ call.res = ParsedName(<<98, 99>>)
    /\ call.rewinds = 1

\* the elem reached from n by following next k times
RECURSIVE NextTimes(_, _, _)
NextTimes(c, n, k) ==
    IF k = 0 \/ n = Nil THEN n ELSE NextTimes(c, c.next[n], k - 1)

\* following next from root comes back to root after exactly k steps
ReturnsAfter(c, k) ==
    /\ NextTimes(c, Root, k) = Root
    /\ \A j \in 1..(k - 1) : NextTimes(c, Root, j) # Root

Linked(c) == {ListNodes(c)[i] : i \in 1..Len(ListNodes(c))}

\* index and list describe the same set
IndexMatchesList(c) ==
    /\ \A k \in DOMAIN c.idx : c.idx[k] \in Linked(c)
    /\ \A e \in Linked(c) : Has(c, c.name[e]) /\ c.idx[c.name[e]] = e
    /\ \A i, j \in 1..Len(ListNodes(c)) :
          i # j => c.name[ListNodes(c)[i]] # c.name[ListNodes(c)[j]]
    /\ \A n \in {Root} \cup Linked(c) :
          c.prev[c.next[n]] = n /\ c.next[c.prev[n]] = n

(***************************************************************************)
(* C30: after every Load and LoadOrStore the index and the linked list     *)
(* describe the same set: every key of the index maps to an elem linked in *)
(* the circular list from root, every linked elem other than root is the   *)
(* index entry of its own name, no name occurs twice, prev is the inverse  *)
(* of next, and following next from root passes exactly index-size elems   *)
(* and is back at root with the step after them (index-size + 1 steps).    *)
(***************************************************************************)
C30_IndexMatchesRing ==
    call.op = "lru" =>
        /\ IndexMatchesList(cache)
        /\ Len(ListNodes(cache)) = IdxLen(cache)
        /\ ReturnsAfter(cache, IdxLen(cache) + 1)

\* a full cache of two after an eviction and a hit that moved the older
\* elem to the front
C30_Witness ==
    /\ call.op = "lru" /\ call.last = "Load" /\ call.ok
    /\ cache.cap = 2 /\ IdxLen(cache) = 2
    /\ ~call.pure
    /\ cache.name[cache.next[Root]] = call.key
    /\ \E n \in Nodes : cache.next[n] = Nil /\ cache.prev[n] = Nil
    /\ Len(call.ref) = 2 /\ call.ref[1] = call.key

\* C30 with the count as stated: back at root after exactly index-size steps
C30_AsStated ==
    call.op = "lru" =>
        /\ IndexMatchesList(cache)
        /\ ReturnsAfter(cache, IdxLen(cache))

(***************************************************************************)
(* C31: in the cache variants with a len counter, after any sequence of    *)
(* Load and LoadOrStore calls Len() equals the number of keys the index    *)
(* holds and never exceeds Cap(), evictions included.                      *)
(***************************************************************************)
C31_LenIsIndexSize ==
    call.op = "sync" =>
        /\ call.len = IdxLen(cache)
        /\ call.len <= cache.cap

(***************************************************************************)
(* C32: two server names that are no IP literals and that asteriskFor maps *)
(* to the same cache key are mapped to the same SAN list, so the leaf a    *)
(* lookup hits was minted for the SANs of the name looked up.              *)
(***************************************************************************)
C32_SameKeySameSans ==
    (call.op = "pair" /\ call.pc = "done" /\ call.hit
       /\ ~ParseIP(call.first) /\ ~ParseIP(call.second))
        => call.leaf = asteriskFor(call.second)

(***************************************************************************)
(* C33: pickCommonName returns the first DNS SAN unchanged when it is at   *)
(* most 64 bytes long, otherwise its last 64 bytes without everything up   *)
(* to and including the first dot of that tail, and the IP literal when    *)
(* there is no DNS SAN; the result is never longer than 64 bytes, also for *)
(* a long name whose last 64 bytes hold no dot.                            *)
(***************************************************************************)
C33_CommonNameFits ==
    (call.op = "cn" /\ call.pc = "done") =>
        /\ Len(call.out) <= 64
        /\ call.dns = <<>> => call.out = call.ips[1]
        /\ (call.dns # <<>> /\ Len(call.dns[1]) <= 64) => call.out = call.dns[1]
        /\ (call.dns # <<>> /\ Len(call.dns[1]) > 64) =>
              LET name == call.dns[1]
                  from == Len(name) - 64
              IN  \E k \in 0..64 :
                     /\ call.out = SubSeq(name, from + k + 1, Len(name))
                     /\ \A j \in 1..64 : j < k => name[from + j] # "."
                     /\ IF k = 0 THEN \A j \in 1..64 : name[from + j] # "."
                        ELSE name[from + k] = "."

\* a long name whose last 64 bytes hold no dot: the whole tail comes back
C33_Witness ==
    /\ call.op = "cn" /\ call.pc = "done"
    /\ call.dns # <<>> /\ Len(call.dns[1]) > 64
    /\ Len(call.out) = 64
    /\ \A i \in 1..Len(call.out) : call.out[i] # "."

(***************************************************************************)
(* C34: the poll intervals of Shutdown have the base values 1 ms, 2 ms,    *)
(* 4 ms, ... doubling on each tick and staying at 500 ms once the cap is   *)
(* reached; each interval lies within 10% of its base value, so none is    *)
(* shorter than 0.9 ms or longer than 550 ms; the bound handed to the      *)
(* random generator is never zero.                                         *)
(***************************************************************************)
C34_PollIntervals ==
    LET ms == 1000000
        doubled(k) == IF k >= 9 THEN 500 * ms ELSE (2 ^ k) * ms
    IN  /\ call.op # "poll panicked"
        /\ (call.op = "poll" /\ call.ticks > 0) =>
              /\ call.of = doubled(call.ticks - 1)
              /\ call.base = doubled(call.ticks)
              /\ 10 * (call.interval - call.of) <= call.of
              /\ 10 * (call.of - call.interval) <= call.of
              /\ call.interval >= 900000
              /\ call.interval <= 550 * ms
              /\ call.bound # 0

\* an interval drawn at the cap with the largest jitter
C34_Witness ==
    /\ call.op = "poll"
    /\ call.of = 500000000
    /\ call.base = 500000000
    /\ call.interval = 549999999
    /\ call.ticks > 10

\* the pooled objects the wrappers of serve goroutine h hold
HeldReaders(h) == {call.w[h].br, call.w[h].tlsBr} \ {Nil}
HeldBuffers(h) == {call.w[h].buffer} \ {Nil}

(***************************************************************************)
(* C35: on every handler path, the nested wrappers of TLS interception and *)
(* repeated Close calls on one wrapper included, each pooled recording     *)
(* buffer and each pooled bufio reader is returned to its pool at most     *)
(* once per acquisition, and no wrapper keeps (reads or writes) an object  *)
(* it has returned: what a wrapper holds is not in the pool and is held by *)
(* no other wrapper, and a wrapper that is read from still has its object. *)
(***************************************************************************)
C35_PooledOnce ==
    call.op = "pool" =>
        /\ \A r \in ReaderIds : call.putsR[r] <= 1
        /\ \A b \in BufferIds : call.putsB[b] <= 1
        /\ \A h \in Serves :
              /\ HeldReaders(h) \cap call.freeR = {}
              /\ HeldBuffers(h) \cap call.freeB = {}
              /\ (call.w[h].br # Nil /\ call.w[h].tlsBr # Nil)
                    => call.w[h].br # call.w[h].tlsBr
              /\ call.w[h].pc \in {"ReadRequest", "handleRequest", "handleTLS",
                                   "tls.Server", "copy"} => call.w[h].br # Nil
              /\ call.w[h].pc = "tls.Server" => call.w[h].buffer # Nil
              /\ \A g \in Serves \ {h} :
                    /\ HeldReaders(h) \cap HeldReaders(g) = {}
                    /\ HeldBuffers(h) \cap HeldBuffers(g) = {}

\* one goroutine is through an intercepted connection, every Close of its
\* four wrappers called, and the other works with the same two readers
C35_Witness ==
    /\ call.op = "pool"
    /\ \E h \in Serves, g \in Serves :
          /\ call.w[h].pc = "done" /\ call.w[h].tlsClosed
          /\ call.w[h].connCloses > 1
          /\ call.w[g].pc = "copy" /\ call.w[g].tlsBr # Nil
          /\ call.madeR = 2

(***************************************************************************)
(* C36: httpProxy.Dial returns a connection only when the relay answered   *)
(* the CONNECT with status 200; when the relay answers with another status *)
(* or the response cannot be read, Dial returns an error and the           *)
(* connection it opened to the relay is closed and the pooled reader       *)
(* around it released.                                                     *)
(***************************************************************************)
C36_DialClosesOnFailure ==
    call.op = "dial" =>
        \A d \in Dials :
            /\ call.d[d].ret = "conn" => call.d[d].status = 200
            /\ (call.d[d].ret = "err" /\ call.d[d].conn # "none")
                  => (call.d[d].conn = "closed" /\ call.d[d].br = "returned")

(***************************************************************************)
(* C37: Shutdown can be called in every state reachable after NewServer    *)
(* (ListenAndServe never called, ListenAndServe between its shutdown check *)
(* and its bind, ListenAndServe failed to bind) without dereferencing a    *)
(* nil listener; it has marked the server as shut down and goes on to      *)
(* return.                                                                 *)
(***************************************************************************)
C37_ShutdownWithoutListener ==
    /\ sd.pc # "panicked"
    /\ sd.pc # "idle" => srv.shutdown

====
